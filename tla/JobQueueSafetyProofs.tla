------------------------ MODULE JobQueueSafetyProofs ------------------------
(* Proofs about what handlers, reviews and the end of a job write: the    *)
(* fence orders the writes of handlers, what ended stays ended, a version *)
(* in progress has its job, and a waiting job can be approved.            *)
(*                                                                        *)
(* Every step of the queue has one of six shapes (StepHasShape). The      *)
(* invariants are proved shape by shape.                                  *)
EXTENDS JobQueueProofs

-----------------------------------------------------------------------------
(* The life of a row *)

SameJob(i) == jobs'[i].kind = jobs[i].kind /\ jobs'[i].version = jobs[i].version

\* The row may change its flags only, and a cancel is pending while it runs.
Kept(i) ==
  /\ SameJob(i)
  /\ jobs'[i].status = jobs[i].status
  /\ jobs'[i].owner = jobs[i].owner
  /\ jobs'[i].attempts = jobs[i].attempts
  /\ jobs'[i].max = jobs[i].max
  /\ jobs'[i].cancel = jobs[i].cancel \/ jobs[i].status = "running"

Began(i) ==
  /\ IsNextId(i)
  /\ jobs'[i].status = "queued"
  /\ jobs'[i].attempts = 0
  /\ jobs'[i].max = JobMaxAttempts
  /\ jobs'[i].cancel = FALSE

Parked(i) ==
  /\ SameJob(i)
  /\ jobs[i].status = "running"
  /\ jobs'[i].status \in {"queued", "awaiting_review"}
  /\ jobs'[i].attempts = jobs[i].attempts
  /\ jobs'[i].cancel = jobs[i].cancel

Ended(i) ==
  /\ SameJob(i)
  /\ jobs[i].status \in Active
  /\ jobs'[i].status \in Terminal

Taken(i, w) ==
  /\ SameJob(i)
  /\ jobs[i].status = "queued"
  /\ jobs'[i].status = "running"
  /\ jobs'[i].owner = Self(w)
  /\ jobs'[i].attempts = jobs[i].attempts + 1
  /\ jobs'[i].max = jobs[i].max

OthersKept(j) == \A i \in JobIds \ {j} : Kept(i)

-----------------------------------------------------------------------------
(* The shapes of a step *)

Quiet == (\A i \in JobIds : Kept(i)) /\ UNCHANGED <<versions, writer>>

\* Thread w writes its outcome for job j.
ThreadParks(w, j) ==
  /\ workers[w].phase = "writing"
  /\ Holds(workers[w].lease)
  /\ workers[w].lease.job = j
  /\ \/ workers[w].outcome = "awaiting_review" /\ jobs'[j].status = "awaiting_review"
     \/ /\ jobs'[j].status = "queued"
        /\ jobs'[j].max >= jobs[j].max
        /\ \/ workers[w].outcome = "retry"
           \/ jobs'[j].max = jobs[j].max + 1
           \/ jobs[j].attempts < jobs[j].max

\* The maintenance of w puts job j back into the queue.
ReaperParks(w, j) ==
  /\ maint[w].stage = "checked"
  /\ StillLost(w)
  /\ maint[w].lease.job = j
  /\ jobs'[j].status = "queued"
  /\ jobs'[j].max = jobs[j].max
  /\ jobs[j].attempts < jobs[j].max

Parks(j) ==
  /\ Parked(j) /\ OthersKept(j)
  /\ UNCHANGED <<versions, writer>>
  /\ \E w \in Workers : ThreadParks(w, j) \/ ReaperParks(w, j)

Ends(j) ==
  /\ Ended(j) /\ OthersKept(j)
  /\ versions' = SettleVersion(j)
  /\ UNCHANGED writer

Takes(j, w) ==
  /\ Taken(j, w) /\ OthersKept(j)
  /\ UNCHANGED <<versions, writer>>
  /\ workers'[w].lease = [job |-> j, owner |-> Self(w), attempt |-> jobs[j].attempts + 1]
  /\ workers[w].phase = "idle"

\* A fenced write of a handler to its version.
Writes(w, s) ==
  /\ Holds(workers[w].lease)
  /\ workers[w].phase = "running"
  /\ IsMutating(workers[w].lease.job)
  /\ \A i \in JobIds : Kept(i)
  /\ jobs[workers[w].lease.job].version \in Versions =>
       versions'[jobs[workers[w].lease.job].version].status = s
  /\ \A v \in Versions \ {jobs[workers[w].lease.job].version} :
       versions'[v] = versions[v] /\ writer'[v] = writer[v]
  /\ writer' = [writer EXCEPT ![jobs[workers[w].lease.job].version] =
                  [job |-> workers[w].lease.job, attempt |-> workers[w].lease.attempt]]

\* A request inserts job n; a waiting job it continues ends.
Creates(n) ==
  /\ Began(n)
  /\ \A i \in JobIds \ {n} :
       \/ Kept(i)
       \/ /\ Ended(i)
          /\ jobs'[n].kind \in MutatingKinds
          /\ jobs[i].version = jobs'[n].version
  /\ \A v \in Versions :
       \/ versions'[v] = versions[v]
       \/ /\ jobs'[n].kind \in MutatingKinds
          /\ jobs'[n].version = v
          /\ versions'[v].status = "busy"
  /\ UNCHANGED writer

Shape ==
  \/ Quiet
  \/ \E j \in JobIds : Parks(j) \/ Ends(j) \/ Creates(j)
  \/ \E j \in JobIds, w \in Workers : Takes(j, w)
  \/ \E w \in Workers, s \in VersionStatus : Writes(w, s)

\* Nothing but a flag of one row changes.
LEMMA FlagIsQuiet ==
  ASSUME TypeOK, NEW j \in JobIds, NEW b, UNCHANGED <<versions, writer>>,
         \/ jobs' = [jobs EXCEPT ![j].fresh = b]
         \/ jobs' = [jobs EXCEPT ![j].due = b]
         \/ jobs' = [jobs EXCEPT ![j].cancel = b] /\ jobs[j].status = "running"
         \/ jobs' = jobs
  PROVE  Quiet
<1>1. jobs[j] \in JobRow
  BY DEF TypeOK
<1>2. CASE jobs' = [jobs EXCEPT ![j].fresh = b]
  BY <1>1, <1>2 DEF TypeOK, JobRow, Quiet, Kept, SameJob
<1>3. CASE jobs' = [jobs EXCEPT ![j].due = b]
  BY <1>1, <1>3 DEF TypeOK, JobRow, Quiet, Kept, SameJob
<1>4. CASE jobs' = [jobs EXCEPT ![j].cancel = b] /\ jobs[j].status = "running"
  BY <1>1, <1>4 DEF TypeOK, JobRow, Quiet, Kept, SameJob
<1>5. CASE jobs' = jobs
  BY <1>5 DEF Quiet, Kept, SameJob
<1> QED BY <1>2, <1>3, <1>4, <1>5

\* A step that writes no job row and no writer mark is quiet.
LEMMA NoWriteIsQuiet ==
  ASSUME NoWrite, UNCHANGED writer PROVE Quiet
BY DEF NoWrite, Quiet, Kept, SameJob

\* finish, cancel and fail.
LEMMA EndIsEnds ==
  ASSUME TypeOK, NEW j \in JobIds, NEW s \in Terminal, jobs[j].status \in Active,
         jobs' = [jobs EXCEPT ![j] = Over(jobs[j], s)], versions' = SettleVersion(j),
         UNCHANGED writer
  PROVE  Ends(j)
<1>1. jobs[j] \in JobRow
  BY DEF TypeOK
<1> DEFINE row == Over(jobs[j], s)
<1>2. row.kind = jobs[j].kind /\ row.version = jobs[j].version /\ row.status = s
  BY <1>1, OverShape
<1> HIDE DEF row
<1>3. jobs'[j] = row /\ \A i \in JobIds \ {j} : jobs'[i] = jobs[i]
  BY DEF TypeOK, row
<1> QED BY <1>2, <1>3 DEF Ends, Ended, OthersKept, Kept, SameJob

\* What requeue and release do to the row, ...
LEMMA RequeueParked ==
  ASSUME TypeOK, NEW j \in JobIds, NEW due, NEW n \in Nat, jobs[j].status = "running",
         Requeue(j, due, n), UNCHANGED writer
  PROVE  /\ Parked(j) /\ OthersKept(j) /\ UNCHANGED <<versions, writer>>
         /\ jobs'[j].status = "queued" /\ jobs'[j].max = jobs[j].max + n
         /\ jobs[j].max \in Nat /\ jobs[j].attempts \in Nat
<1>1. jobs[j] \in JobRow
  BY DEF TypeOK
<1> DEFINE row == Requeued(jobs[j], due, n)
<1>2. /\ row.kind = jobs[j].kind /\ row.version = jobs[j].version
      /\ row.status = "queued" /\ row.attempts = jobs[j].attempts
      /\ row.cancel = jobs[j].cancel /\ row.max = jobs[j].max + n
      /\ jobs[j].max \in Nat /\ jobs[j].attempts \in Nat
  BY <1>1 DEF Requeued, WithStatus, Unlocked, JobRow
<1>3. jobs'[j] = row /\ \A i \in JobIds \ {j} : jobs'[i] = jobs[i]
  BY DEF TypeOK, Requeue
<1> HIDE DEF row
<1> QED BY <1>2, <1>3 DEF Requeue, Parked, OthersKept, Kept, SameJob

\* ... and the pause for review.
LEMMA PauseParks ==
  ASSUME TypeOK, NEW w \in Workers, Holds(workers[w].lease), workers[w].phase = "writing",
         workers[w].outcome = "awaiting_review",
         AwaitReview(workers[w].lease.job), UNCHANGED writer
  PROVE  Parks(workers[w].lease.job)
<1> DEFINE j == workers[w].lease.job
           row == WithStatus(jobs[j], "awaiting_review")
<1>1. j \in JobIds /\ jobs[j] \in JobRow /\ jobs[j].status = "running"
  BY DEF Holds, TypeOK
<1>2. /\ row.kind = jobs[j].kind /\ row.version = jobs[j].version
      /\ row.status = "awaiting_review" /\ row.attempts = jobs[j].attempts
      /\ row.cancel = jobs[j].cancel
  BY <1>1 DEF WithStatus, Unlocked, JobRow
<1>3. jobs'[j] = row /\ \A i \in JobIds \ {j} : jobs'[i] = jobs[i]
  BY <1>1 DEF TypeOK, AwaitReview
<1> HIDE DEF row
<1> QED BY <1>1, <1>2, <1>3 DEF AwaitReview, Parks, ThreadParks, Parked, OthersKept, Kept, SameJob

\* _insert_job, next to rows that keep or end.
LEMMA InsertBegins ==
  ASSUME NEW k, NEW v, NEW r, NEW n \in JobIds, IsNextId(n), jobs'[n] = NewRow(k, v, r)
  PROVE  Began(n) /\ jobs'[n].kind = k /\ jobs'[n].version = v
BY DEF NewRow, Began

\* Requests: cancel, or an insert.
LEMMA RequestHasShape ==
  ASSUME TypeOK, Request PROVE Shape
<1>1. ASSUME NEW k, NEW v, NEW r, NEW n \in JobIds, Insert(k, v, r, n), UNCHANGED writer,
             \A u \in Versions : \/ versions'[u] = versions[u]
                                 \/ k \in MutatingKinds /\ v = u /\ versions'[u].status = "busy"
      PROVE  Creates(n)
  <2>1. IsNextId(n) /\ jobs'[n] = NewRow(k, v, r) /\ \A i \in JobIds \ {n} : jobs'[i] = jobs[i]
    BY <1>1 DEF Insert, TypeOK
  <2>2. Began(n) /\ jobs'[n].kind = k /\ jobs'[n].version = v
    BY <2>1, InsertBegins
  <2> QED BY <1>1, <2>1, <2>2 DEF Creates, Kept, SameJob
<1>2. ASSUME NEW v \in Versions, NEW k \in MutatingKinds, CreateVersion(v, k) PROVE Shape
  <2>1. PICK n \in JobIds : Insert(k, v, NoRender, n)
    BY <1>2 DEF CreateVersion
  <2>2. \A u \in Versions : versions'[u] = versions[u] \/ (v = u /\ versions'[u].status = "busy")
    BY <1>2 DEF CreateVersion, TypeOK
  <2> QED BY <1>1, <1>2, <2>1, <2>2 DEF CreateVersion, Shape
<1>3. ASSUME NEW v \in Versions, EnqueueBuild(v) PROVE Shape
  BY <1>1, <1>3 DEF EnqueueBuild, Shape
<1>4. ASSUME NEW r \in Renders, NEW v \in Versions, EnqueueRender(r, v) PROVE Shape
  BY <1>1, <1>4 DEF EnqueueRender, Shape
<1>5. ASSUME EnqueueCleanup PROVE Shape
  BY <1>1, <1>5 DEF EnqueueCleanup, Shape
<1>6. ASSUME NEW j \in JobIds, RequestCancel(j) PROVE Shape
  <2>1. CASE jobs[j].status \in {"queued", "awaiting_review"}
    BY <1>6, <2>1, EndIsEnds DEF RequestCancel, Shape, Terminal, Active
  <2>2. CASE jobs[j].status \notin {"queued", "awaiting_review"}
    BY <1>6, <2>2, FlagIsQuiet DEF RequestCancel, Shape
  <2> QED BY <2>1, <2>2
<1>7. ASSUME NEW j \in JobIds, RetryJob(j) PROVE Shape
  <2>1. PICK n \in JobIds :
          /\ IsNextId(n)
          /\ jobs' = [jobs EXCEPT ![j].retried = TRUE,
                        ![n] = NewRow(jobs[j].kind, jobs[j].version, jobs[j].render)]
    BY <1>7 DEF RetryJob
  <2>2. j # n /\ jobs[j] \in JobRow
    BY <1>7, <2>1 DEF RetryJob, IsNextId, Retryable, TypeOK
  <2>3. jobs'[n] = NewRow(jobs[j].kind, jobs[j].version, jobs[j].render)
    BY <2>1, <2>2 DEF TypeOK
  <2>4. \A i \in JobIds \ {n} : Kept(i)
    BY <2>1, <2>2 DEF TypeOK, JobRow, Kept, SameJob
  <2>5. Began(n)
    BY <2>1, <2>3 DEF NewRow, Began
  <2> QED BY <1>7, <2>4, <2>5 DEF RetryJob, Creates, Shape
<1>8. ASSUME NEW j \in JobIds, ApproveReview(j) PROVE Shape
  <2>1. PICK n \in JobIds :
          /\ IsNextId(n)
          /\ jobs' = [jobs EXCEPT ![j] = Over(jobs[j], "succeeded"),
                        ![n] = NewRow("generate_lecture", jobs[j].version, NoRender)]
    BY <1>8 DEF ApproveReview
  <2>2. j # n /\ jobs[j] \in JobRow /\ jobs[j].status = "awaiting_review"
    BY <1>8, <2>1 DEF ApproveReview, IsNextId, TypeOK
  <2> DEFINE row == Over(jobs[j], "succeeded")
  <2>3. row.kind = jobs[j].kind /\ row.version = jobs[j].version /\ row.status = "succeeded"
    BY <2>2, OverShape
  <2>4. /\ jobs'[n] = NewRow("generate_lecture", jobs[j].version, NoRender)
        /\ jobs'[j] = row
        /\ \A i \in JobIds \ {n, j} : jobs'[i] = jobs[i]
    BY <2>1, <2>2 DEF TypeOK
  <2>5. Began(n) /\ jobs'[n].kind = "generate_lecture" /\ jobs'[n].version = jobs[j].version
    BY <2>1, <2>4 DEF NewRow, Began
  <2> HIDE DEF row
  <2>6. Ended(j) /\ SameJob(j)
    BY <2>2, <2>3, <2>4 DEF Ended, SameJob, Active, Terminal
  <2>7. \A i \in JobIds \ {n, j} : Kept(i)
    BY <2>4 DEF Kept, SameJob
  <2>8. \A v \in Versions : \/ versions'[v] = versions[v]
                            \/ jobs[j].version = v /\ versions'[v].status = "busy"
    BY <1>8 DEF ApproveReview, TypeOK
  <2> QED BY <1>8, <2>5, <2>6, <2>7, <2>8 DEF ApproveReview, Creates, Shape, MutatingKinds
<1> QED BY <1>2, <1>3, <1>4, <1>5, <1>6, <1>7, <1>8 DEF Request

\* Threads: claims, the writes of handlers, and ends.
LEMMA ThreadHasShape ==
  ASSUME TypeOK, NEW w \in Workers, Thread(w) PROVE Shape
<1> DEFINE l == workers[w].lease
<1>1. CASE Claim(w)
  <2>1. PICK j \in JobIds :
          /\ FirstClaimable(j)
          /\ jobs' = [jobs EXCEPT ![j] = Claimed(jobs[j], Self(w))]
          /\ workers' = [workers EXCEPT ![w].phase = "claimed", ![w].lease =
                           [job |-> j, owner |-> Self(w), attempt |-> jobs[j].attempts + 1]]
    BY <1>1 DEF Claim
  <2> DEFINE row == Claimed(jobs[j], Self(w))
  <2>2. /\ row.kind = jobs[j].kind /\ row.version = jobs[j].version /\ row.status = "running"
        /\ row.owner = Self(w) /\ row.attempts = jobs[j].attempts + 1 /\ row.max = jobs[j].max
    BY DEF Claimed, TypeOK, JobRow
  <2>3. jobs[j].status = "queued" /\ workers[w].phase = "idle"
    BY <1>1, <2>1 DEF FirstClaimable, Claimable, Claim
  <2>4. jobs'[j] = row /\ \A i \in JobIds \ {j} : jobs'[i] = jobs[i]
    BY <2>1 DEF TypeOK
  <2>5. workers'[w].lease = [job |-> j, owner |-> Self(w), attempt |-> jobs[j].attempts + 1]
    BY <2>1 DEF TypeOK, WorkerRow
  <2> HIDE DEF row
  <2>6. Taken(j, w) /\ OthersKept(j)
    BY <2>2, <2>3, <2>4 DEF Taken, OthersKept, Kept, SameJob
  <2> QED BY <1>1, <2>3, <2>5, <2>6 DEF Claim, Takes, Shape
<1>2. ASSUME NEW s \in VersionStatus, HandlerWritesVersion(w, s) PROVE Shape
  <2>1. CASE Holds(l)
    <3>1. l.job \in JobIds /\ workers[w].phase = "running" /\ IsMutating(l.job)
      BY <1>2, <2>1 DEF HandlerWritesVersion, Holds
    <3>2. jobs' = [jobs EXCEPT ![l.job].fresh = TRUE]
      BY <1>2, <2>1 DEF HandlerWritesVersion
    <3>3. \A i \in JobIds : Kept(i)
      BY <3>1, <3>2 DEF TypeOK, JobRow, Kept, SameJob
    <3>4. PICK b : versions' = [versions EXCEPT ![jobs[l.job].version] = [status |-> s, built |-> b]]
      BY <1>2, <2>1 DEF HandlerWritesVersion
    <3>5. writer' = [writer EXCEPT ![jobs[l.job].version] = [job |-> l.job, attempt |-> l.attempt]]
      BY <1>2, <2>1 DEF HandlerWritesVersion
    <3>6. \A v \in Versions \ {jobs[l.job].version} :
            versions'[v] = versions[v] /\ writer'[v] = writer[v]
      BY <3>4, <3>5 DEF TypeOK
    <3>7. jobs[l.job].version \in Versions => versions'[jobs[l.job].version].status = s
      BY <3>4 DEF TypeOK
    <3> QED BY <2>1, <3>1, <3>3, <3>5, <3>6, <3>7 DEF Writes, Shape
  <2>2. CASE ~Holds(l)
    BY <1>2, <2>2 DEF HandlerWritesVersion, Shape, Quiet, Kept, SameJob
  <2> QED BY <2>1, <2>2
<1>3. CASE Persist(w)
  <2>1. CASE NoWrite
    BY <1>3, <2>1, NoWriteIsQuiet DEF Persist, Shape
  <2>2. ASSUME NEW s \in Terminal, Holds(l), End(l.job, s) PROVE Shape
    BY <1>3, <2>2, EndIsEnds DEF Persist, Shape, End, Holds, Active
  <2> QED BY <1>3, <2>1, <2>2 DEF Persist, Terminal
<1>4. CASE Open(w) \/ HandlerEnds(w) \/ GiveUp(w)
  BY <1>4, NoWriteIsQuiet DEF Open, HandlerEnds, HandlerReturns, HandlerFailsForGood, HandlerRaises,
                        HandlerStops, HandlerQuits, GiveUp, NoWrite, Shape
<1> QED BY <1>1, <1>2, <1>3, <1>4 DEF Thread, Handler

\* The second statements of the transitions.
LEMMA SecondHasShape ==
  ASSUME TypeOK, NEW w \in Workers, Write(w) \/ RecoverRow(w) PROVE Shape
<1>1. CASE Write(w)
  <2> DEFINE l == workers[w].lease
             o == workers[w].outcome
  <2>1. CASE NoWrite
    BY <1>1, <2>1, NoWriteIsQuiet DEF Write, Shape
  <2>2. CASE Holds(l) /\ o = "awaiting_review" /\ AwaitReview(l.job)
    BY <1>1, <2>2, PauseParks DEF Write, Shape, Holds
  <2>3. ASSUME NEW due, NEW n \in Nat, Holds(l), Requeue(l.job, due, n),
               o = "retry" \/ n = 1 \/ jobs[l.job].attempts < jobs[l.job].max
        PROVE  Shape
    <3>1. l.job \in JobIds /\ jobs[l.job].status = "running" /\ workers[w].phase = "writing"
          /\ UNCHANGED writer
      BY <1>1, <2>3 DEF Holds, Write
    <3>2. /\ Parked(l.job) /\ OthersKept(l.job) /\ UNCHANGED <<versions, writer>>
          /\ jobs'[l.job].status = "queued" /\ jobs'[l.job].max = jobs[l.job].max + n
          /\ jobs[l.job].max \in Nat
      BY <2>3, <3>1, RequeueParked
    <3>3. jobs'[l.job].max >= jobs[l.job].max
      BY <2>3, <3>2
    <3>4. ThreadParks(w, l.job)
      BY <2>3, <3>1, <3>2, <3>3 DEF ThreadParks
    <3> QED BY <3>1, <3>2, <3>4 DEF Parks, Shape
  <2>4. CASE Holds(l) /\ End(l.job, "failed")
    BY <1>1, <2>4, EndIsEnds DEF Write, Shape, End, Holds, Active, Terminal
  <2> QED BY <1>1, <2>1, <2>2, <2>3, <2>4 DEF Write
<1>2. CASE RecoverRow(w)
  <2> DEFINE l == maint[w].lease
  <2>1. CASE NoWrite
    BY <1>2, <2>1, NoWriteIsQuiet DEF RecoverRow, Shape
  <2>2. CASE StillLost(w) /\ ~(jobs[l.job].attempts >= jobs[l.job].max) /\ Requeue(l.job, TRUE, 0)
    <3>1. l.job \in JobIds /\ jobs[l.job].status = "running" /\ maint[w].stage = "checked"
          /\ UNCHANGED writer
      BY <1>2, <2>2 DEF RecoverRow, StillLost, Holds
    <3> DEFINE j == l.job
    <3>3. /\ Parked(j) /\ OthersKept(j) /\ UNCHANGED <<versions, writer>>
          /\ jobs'[j].status = "queued" /\ jobs'[j].max = jobs[j].max + 0
          /\ jobs[j].max \in Nat /\ jobs[j].attempts \in Nat
      BY <2>2, <3>1, RequeueParked
    <3>4. ReaperParks(w, j)
      BY <2>2, <3>1, <3>3 DEF ReaperParks
    <3>2. Parks(j)
      BY <3>3, <3>4 DEF Parks
    <3> QED BY <3>1, <3>2 DEF Shape
  <2>3. CASE Holds(l) /\ End(l.job, "failed")
    BY <1>2, <2>3, EndIsEnds DEF RecoverRow, Shape, End, Holds, Active, Terminal
  <2> QED BY <1>2, <2>1, <2>2, <2>3 DEF RecoverRow, StillLost
<1> QED BY <1>1, <1>2

\* So every step has a shape.
LEMMA StepHasShape ==
  ASSUME TypeOK, [Next]_vars PROVE Shape
<1>1. CASE UNCHANGED vars
  BY <1>1, NoWriteIsQuiet DEF vars, NoWrite, Shape
<1>2. CASE Tick
  BY <1>2, FlagIsQuiet DEF Tick, BackoffElapses, HeartbeatGoesStale, Shape
<1>3. ASSUME NEW w \in Workers, Heartbeat(w) PROVE Shape
  <2>1. Holds(workers[w].lease) => workers[w].lease.job \in JobIds
    BY DEF Holds
  <2>2. CASE BeatOnce(w) /\ Holds(workers[w].lease)
    BY <2>1, <2>2, FlagIsQuiet DEF BeatOnce, Shape
  <2>3. CASE BeatOnce(w) /\ ~Holds(workers[w].lease)
    BY <2>3 DEF BeatOnce, Shape, Quiet, Kept, SameJob
  <2>4. CASE RefreshFlags(w)
    BY <2>4 DEF RefreshFlags, Shape, Quiet, Kept, SameJob
  <2> QED BY <1>3, <2>2, <2>3, <2>4 DEF Heartbeat
<1>4. ASSUME NEW w \in Workers, Process(w) PROVE Shape
  BY <1>4, NoWriteIsQuiet DEF Process, Stop, RequestShutdown, Exit, Crash, Exits, Restart, NoWrite, Shape
<1>5. ASSUME NEW w \in Workers, Maintenance(w) PROVE Shape
  <2>1. CASE RecoverCancelled(w)
    <3>1. CASE NoWrite
      BY <2>1, <3>1, NoWriteIsQuiet DEF RecoverCancelled, Shape
    <3>2. CASE StillLost(w) /\ End(maint[w].lease.job, "cancelled")
      BY <2>1, <3>2, EndIsEnds DEF RecoverCancelled, Shape, StillLost, End, Holds, Active, Terminal
    <3> QED BY <2>1, <3>1, <3>2 DEF RecoverCancelled
  <2>2. CASE (\E j \in JobIds : SelectStale(w, j) \/ SelectOwnHost(w, j)) \/ RecoveryDone(w)
    BY <2>2, NoWriteIsQuiet DEF SelectStale, SelectOwnHost, RecoveryDone, NoWrite, Shape
  <2> QED BY <1>5, <2>1, <2>2 DEF Maintenance
<1> QED BY <1>1, <1>2, <1>3, <1>4, <1>5, RequestHasShape, ThreadHasShape, SecondHasShape
        DEF Next, SecondStatement, OneStatement

-----------------------------------------------------------------------------
(* What ended stays ended *)

\* A row that was never inserted has had no attempt.
AbsentFresh == \A j \in JobIds : jobs[j].status = "absent" => jobs[j].attempts = 0

EndInv == TypeOK /\ AbsentFresh

\* Each of the six shapes keeps a row, begins it with no attempt or moves it on.
LEMMA RowMoves ==
  ASSUME TypeOK, Shape, NEW i \in JobIds
  PROVE  \/ Kept(i) \/ Began(i) \/ Parked(i) \/ Ended(i)
         \/ \E w \in Workers : Taken(i, w)
<1>1. CASE Quiet \/ \E w \in Workers, s \in VersionStatus : Writes(w, s)
  BY <1>1 DEF Quiet, Writes
<1>2. ASSUME NEW j \in JobIds, Parks(j) \/ Ends(j) \/ Creates(j) \/ \E w \in Workers : Takes(j, w)
      PROVE  \/ Kept(i) \/ Began(i) \/ Parked(i) \/ Ended(i)
             \/ \E w \in Workers : Taken(i, w)
  BY <1>2 DEF Parks, Ends, Creates, Takes, OthersKept
<1> QED BY <1>1, <1>2 DEF Shape

\* What a move does to the status and the attempts of a row.
LEMMA RowEnds ==
  ASSUME TypeOK, AbsentFresh, Shape, NEW i \in JobIds
  PROVE  /\ jobs[i].status \in Terminal => jobs'[i].status = jobs[i].status
         /\ jobs'[i].status \in Active => jobs'[i].attempts >= jobs[i].attempts
         /\ jobs'[i].status = "absent" => jobs[i].status = "absent" /\ jobs'[i].attempts = jobs[i].attempts
<1>1. jobs[i].attempts \in Nat
  BY DEF TypeOK, JobRow
<1>2. CASE Kept(i)
  BY <1>1, <1>2 DEF Kept
<1>3. CASE Began(i)
  BY <1>1, <1>3 DEF Began, IsNextId, AbsentFresh, Terminal
<1>4. CASE Parked(i) \/ Ended(i) \/ \E w \in Workers : Taken(i, w)
  BY <1>1, <1>4 DEF Parked, Ended, Taken, Terminal, Active
<1> QED BY <1>2, <1>3, <1>4, RowMoves

\* The empty table, ...
LEMMA EndInit == Init => EndInv
BY InitType DEF Init, EndInv, AbsentFresh, AbsentRow, NewRow

\* ... and every step.
LEMMA EndStep == EndInv /\ [Next]_vars => EndInv'
<1> SUFFICES ASSUME EndInv, [Next]_vars PROVE EndInv'
  OBVIOUS
<1>1. TypeOK'
  BY NextType DEF EndInv
<1>2. Shape
  BY StepHasShape DEF EndInv
<1> QED BY <1>1, <1>2, RowEnds DEF EndInv, AbsentFresh

\* No late worker, reaper or request takes an ended job up again, and the
\* attempts of a job that goes on are never given back (queue.py, lease.py).
THEOREM EndedForGood == Spec => EndedStaysEnded
<1>1. ASSUME EndInv, [Next]_vars
      PROVE  [\A j \in JobIds :
                /\ jobs[j].status \in Terminal => jobs'[j].status = jobs[j].status
                /\ jobs'[j].status \in Active => jobs'[j].attempts >= jobs[j].attempts]_vars
  BY <1>1, StepHasShape, RowEnds DEF EndInv
<1> QED BY <1>1, EndInit, EndStep, PTL DEF Spec, EndedStaysEnded

-----------------------------------------------------------------------------
(* The writes of handlers are ordered *)

\* Ids are given in order.
IdsInOrder ==
  \A i, k \in JobIds : i < k /\ jobs[k].status # "absent" => jobs[i].status # "absent"

\* The last writer of a version has a row.
WriterKnown ==
  \A v \in Versions, j \in JobIds : writer[v].job = j => jobs[j].status # "absent"

\* The active job of a version is no older than the last write to it.
WriterBehind ==
  \A v \in Versions, i \in JobIds :
    i \in ActiveFor(v) => LexLeq(writer[v], [job |-> i, attempt |-> jobs[i].attempts])

WriterInv == ActiveInv /\ AbsentFresh /\ IdsInOrder /\ WriterKnown /\ WriterBehind

\* What a fenced write changes.
LEMMA WriteOfHolder ==
  ASSUME ActiveInv, NEW w \in Workers, NEW s, Writes(w, s)
  PROVE  LET j == workers[w].lease.job
             v == jobs[j].version IN
         /\ j \in JobIds /\ v \in Versions /\ j \in ActiveFor(v)
         /\ jobs[j].status = "running" /\ jobs[j].owner = workers[w].lease.owner
         /\ writer'[v] = [job |-> j, attempt |-> jobs[j].attempts]
         /\ versions'[v].status = s
         /\ \A u \in Versions \ {v} : writer'[u] = writer[u] /\ versions'[u] = versions[u]
<1> DEFINE j == workers[w].lease.job
<1>1. /\ j \in JobIds /\ jobs[j].status = "running" /\ IsMutating(j)
      /\ jobs[j].attempts = workers[w].lease.attempt
      /\ jobs[j].owner = workers[w].lease.owner
  BY DEF Writes, Holds
<1>2. jobs[j].version \in Versions /\ j \in ActiveFor(jobs[j].version)
  BY <1>1 DEF ActiveInv, JobsHaveVersions, ActiveFor, Active
<1> QED BY <1>1, <1>2 DEF Writes, ActiveInv, TypeOK

\* The history of writes grows in the order of the fence, for every shape.
LEMMA WriterGrows ==
  ASSUME WriterInv, Shape, NEW v \in Versions
  PROVE  LexLeq(writer[v], writer'[v])
<1>1. writer[v].job \in Nat /\ writer[v].attempt \in Nat
  BY DEF WriterInv, ActiveInv, TypeOK, Tokens, JobIds
<1>2. CASE UNCHANGED writer
  BY <1>1, <1>2 DEF LexLeq
<1>3. ASSUME NEW w \in Workers, NEW s, Writes(w, s) PROVE LexLeq(writer[v], writer'[v])
  <2>1. CASE v = jobs[workers[w].lease.job].version
    BY ZenonT(60), <1>3, <2>1, WriteOfHolder DEF WriterInv, WriterBehind
  <2>2. CASE v # jobs[workers[w].lease.job].version
    <3>1. writer'[v] = writer[v]
      BY <1>3, <2>2 DEF Writes
    <3> QED BY <1>1, <3>1 DEF LexLeq
  <2> QED BY <2>1, <2>2
<1> QED BY <1>2, <1>3 DEF Shape, Quiet, Parks, Ends, Creates, Takes

\* The empty table, ...
LEMMA WriterInit == Init => WriterInv
<1> SUFFICES ASSUME Init PROVE WriterInv
  OBVIOUS
<1>1. \A j \in JobIds : jobs[j].status = "absent" /\ jobs[j].attempts = 0
  BY DEF Init, AbsentRow, NewRow
<1>2. \A v \in Versions : writer[v].job = 0 /\ 0 \notin JobIds
  BY DEF Init, JobIds
<1> QED BY <1>1, <1>2, ActiveInit
        DEF WriterInv, AbsentFresh, IdsInOrder, WriterKnown, WriterBehind, ActiveFor, Active

\* ... and every step.
LEMMA WriterStep == WriterInv /\ [Next]_vars => WriterInv'
<1> SUFFICES ASSUME WriterInv, [Next]_vars PROVE WriterInv'
  OBVIOUS
<1>1. ActiveInv' /\ TypeOK /\ TypeOK'
  BY ActiveStep DEF WriterInv, ActiveInv
<1>2. Shape
  BY <1>1, StepHasShape
<1>3. AbsentFresh'
  BY <1>1, <1>2, RowEnds DEF WriterInv, AbsentFresh
<1>4. \A i \in JobIds : jobs'[i].status = "absent" => jobs[i].status = "absent"
  BY <1>1, <1>2, RowEnds DEF WriterInv
<1>5. \A i \in JobIds : jobs[i].status = "absent" /\ jobs'[i].status # "absent" => IsNextId(i)
  BY <1>1, <1>2, RowMoves DEF Kept, Began, Parked, Ended, Taken, Active
<1>6. IdsInOrder'
  BY <1>4, <1>5 DEF WriterInv, IdsInOrder, IsNextId
<1>7. WriterKnown'
  <2> SUFFICES ASSUME NEW v \in Versions, NEW j \in JobIds, writer'[v].job = j
               PROVE  jobs'[j].status # "absent"
    BY DEF WriterKnown
  <2>1. CASE writer'[v] = writer[v]
    BY <1>4, <2>1 DEF WriterInv, WriterKnown
  <2>2. ASSUME NEW w \in Workers, NEW s, Writes(w, s), writer'[v] # writer[v]
        PROVE  jobs'[j].status # "absent"
    <3> DEFINE k == workers[w].lease.job
    <3>1. k \in JobIds /\ writer'[v] = [job |-> k, attempt |-> jobs[k].attempts]
          /\ jobs[k].status = "running"
      BY <2>2, WriteOfHolder DEF WriterInv
    <3>2. j = k
      BY <3>1
    <3>3. jobs[j].status = "running"
      BY <3>1, <3>2
    <3> QED BY <1>4, <3>3
  <2> QED BY <1>2, <2>1, <2>2 DEF Shape, Quiet, Parks, Ends, Creates, Takes
<1>8. WriterBehind'
  <2> SUFFICES ASSUME NEW v \in Versions, NEW i \in JobIds, (i \in ActiveFor(v))'
               PROVE  LexLeq(writer[v], [job |-> i, attempt |-> jobs[i].attempts])'
    BY DEF WriterBehind
  <2>1. /\ writer[v].job \in Nat /\ writer[v].attempt \in Nat /\ jobs[i].attempts \in Nat
        /\ writer'[v].job \in Nat /\ writer'[v].attempt \in Nat /\ jobs'[i].attempts \in Nat
        /\ writer[v].job \in JobIds \cup {0}
    <3>1. writer[v] \in Tokens /\ writer'[v] \in Tokens /\ jobs[i] \in JobRow /\ jobs'[i] \in JobRow
      BY <1>1 DEF TypeOK
    <3> QED BY <3>1 DEF Tokens, JobRow, JobIds
  <2>2. jobs'[i].status \in Active /\ jobs'[i].kind \in MutatingKinds /\ jobs'[i].version = v
    BY DEF ActiveFor, IsMutating
  <2>3. CASE i \in ActiveFor(v) /\ writer'[v] = writer[v]
    <3>1. jobs'[i].attempts >= jobs[i].attempts
      BY <1>1, <1>2, <2>2, RowEnds DEF WriterInv
    <3>2. LexLeq(writer[v], [job |-> i, attempt |-> jobs[i].attempts])
      BY <2>3 DEF WriterInv, WriterBehind
    <3> QED BY <2>1, <2>3, <3>1, <3>2 DEF LexLeq
  <2>4. CASE Began(i) /\ writer'[v] = writer[v]
    <3>1. writer[v].job < i
      <4>1. CASE writer[v].job \in JobIds
        <5>1. jobs[writer[v].job].status # "absent" /\ jobs[i].status = "absent"
          BY <2>4, <4>1 DEF Began, IsNextId, WriterInv, WriterKnown
        <5>2. ~(i < writer[v].job) /\ i # writer[v].job
          BY <4>1, <5>1 DEF WriterInv, IdsInOrder
        <5> QED BY <2>1, <5>2 DEF JobIds
      <4>2. CASE writer[v].job = 0
        BY <4>2 DEF JobIds
      <4> QED BY <2>1, <4>1, <4>2
    <3> QED BY <2>1, <2>4, <3>1 DEF LexLeq
  <2>5. ASSUME NEW w \in Workers, NEW s, Writes(w, s), writer'[v] # writer[v]
        PROVE  LexLeq(writer[v], [job |-> i, attempt |-> jobs[i].attempts])'
    <3> DEFINE j == workers[w].lease.job
    <3>1. j \in JobIds /\ v = jobs[j].version /\ j \in ActiveFor(v)
          /\ writer'[v] = [job |-> j, attempt |-> jobs[j].attempts]
      BY <2>5, WriteOfHolder DEF WriterInv
    <3>2. Kept(i) /\ Kept(j)
      BY <2>5, <3>1 DEF Writes
    <3>3. i = j
      BY <2>2, <3>1, <3>2 DEF Kept, SameJob, WriterInv, ActiveInv, OneActivePerVersion, ActiveFor, IsMutating
    <3>4. jobs'[i].attempts = jobs[i].attempts
      BY <3>2 DEF Kept
    <3>5. writer'[v].job = i /\ writer'[v].attempt = jobs'[i].attempts
      BY <3>1, <3>3, <3>4
    <3> QED BY <2>1, <3>5 DEF LexLeq
  <2>6. Began(i) \/ i \in ActiveFor(v)
    BY <1>1, <1>2, <2>2, RowMoves
       DEF Kept, SameJob, Parked, Ended, Taken, ActiveFor, IsMutating, Active, Terminal
  <2>7. writer'[v] = writer[v] \/ \E w \in Workers, s \in VersionStatus : Writes(w, s)
    BY <1>2 DEF Shape, Quiet, Parks, Ends, Creates, Takes
  <2> QED BY <2>3, <2>4, <2>5, <2>6, <2>7
<1> QED BY <1>1, <1>3, <1>6, <1>7, <1>8 DEF WriterInv

\* lease.assert_lease: a worker that lost its lease never writes to a version
\* after a later attempt of the job, or a later job of the version, has.
THEOREM WritesFenced == Spec => WritesAreFenced
<1>1. ASSUME WriterInv, [Next]_vars
      PROVE  [\A v \in Versions : LexLeq(writer[v], writer'[v])]_vars
  BY <1>1, StepHasShape, WriterGrows DEF WriterInv, ActiveInv
<1> QED BY <1>1, WriterInit, WriterStep, PTL DEF Spec, WritesAreFenced

-----------------------------------------------------------------------------
(* A version in progress has a job *)

ProgressInv == ActiveInv /\ TransientHasJob

\* A row that goes on is still a job of its version.
LEMMA StaysActive ==
  ASSUME NEW i \in JobIds, NEW v, i \in ActiveFor(v),
         Kept(i) \/ Parked(i) \/ \E w \in Workers : Taken(i, w)
  PROVE  (i \in ActiveFor(v))'
BY DEF Kept, Parked, Taken, SameJob, ActiveFor, IsMutating, Active

\* A version whose status stays transient keeps a job, for every shape.
LEMMA JobRemains ==
  ASSUME ProgressInv, Shape, NEW v \in Versions, versions'[v].status \in Transient
  PROVE  (ActiveFor(v) # {})'
<1>1. CASE Quiet \/ \E j \in JobIds : Parks(j) \/ \E w \in Workers : Takes(j, w)
  <2>1. PICK i \in JobIds : i \in ActiveFor(v)
    BY <1>1 DEF ProgressInv, TransientHasJob, Quiet, Parks, Takes, ActiveFor
  <2>2. (i \in ActiveFor(v))'
    BY <1>1, <2>1, StaysActive DEF Quiet, Parks, Takes, OthersKept
  <2> QED BY <2>2
<1>2. ASSUME NEW j \in JobIds, Ends(j) PROVE (ActiveFor(v) # {})'
  <2>1. PICK i \in JobIds : i \in ActiveFor(v) /\ i # j
    BY <1>2 DEF Ends, SettleVersion, ProgressInv, TransientHasJob, ActiveInv, TypeOK, ActiveFor, Transient
  <2>2. (i \in ActiveFor(v))'
    BY <1>2, <2>1, StaysActive DEF Ends, OthersKept
  <2> QED BY <2>2
<1>3. ASSUME NEW w \in Workers, NEW s, Writes(w, s) PROVE (ActiveFor(v) # {})'
  <2>1. PICK i \in JobIds : i \in ActiveFor(v)
    BY ZenonT(60), <1>3, WriteOfHolder DEF ProgressInv, TransientHasJob, ActiveFor
  <2>2. (i \in ActiveFor(v))'
    BY <1>3, <2>1, StaysActive DEF Writes
  <2> QED BY <2>2
<1>4. ASSUME NEW n \in JobIds, Creates(n) PROVE (ActiveFor(v) # {})'
  <2>1. CASE jobs'[n].kind \in MutatingKinds /\ jobs'[n].version = v
    <3>1. (n \in ActiveFor(v))'
      BY <1>4, <2>1 DEF Creates, Began, ActiveFor, IsMutating, Active
    <3> QED BY <3>1
  <2>2. CASE ~(jobs'[n].kind \in MutatingKinds /\ jobs'[n].version = v)
    <3>1. versions'[v] = versions[v]
      BY <1>4, <2>2 DEF Creates
    <3>2. PICK i \in JobIds : i \in ActiveFor(v)
      BY <3>1 DEF ProgressInv, TransientHasJob, ActiveFor
    <3>3. i # n /\ jobs[i].version = v
      BY <1>4, <3>2 DEF Creates, Began, IsNextId, ActiveFor, Active
    <3>4. Kept(i)
      BY <1>4, <2>2, <3>3 DEF Creates
    <3>5. (i \in ActiveFor(v))'
      BY <3>2, <3>4, StaysActive
    <3> QED BY <3>5
  <2> QED BY <2>1, <2>2
<1> QED BY <1>1, <1>2, <1>3, <1>4 DEF Shape

\* settle_version and the requests: a version that is generating, building or
\* waiting for review always has an active job that will move it on.
THEOREM NoStuckVersion == Spec => []TransientHasJob
<1>1. Init => ProgressInv
  BY ActiveInit DEF Init, ProgressInv, TransientHasJob, Transient
<1>2. ProgressInv /\ [Next]_vars => ProgressInv'
  <2> SUFFICES ASSUME ProgressInv, [Next]_vars PROVE ProgressInv'
    OBVIOUS
  <2>1. ActiveInv' /\ Shape
    BY ActiveStep, StepHasShape DEF ProgressInv, ActiveInv
  <2> QED BY <2>1, JobRemains DEF ProgressInv, TransientHasJob
<1>3. ProgressInv => TransientHasJob
  BY DEF ProgressInv
<1> QED BY <1>1, <1>2, <1>3, PTL DEF Spec

-----------------------------------------------------------------------------
(* The moves of a thread *)

SameLease(w) ==
  workers'[w].lease = workers[w].lease /\ workers'[w].boot = workers[w].boot

\* Only flags of the thread change.
Stays(w) ==
  /\ SameLease(w)
  /\ workers'[w].phase = workers[w].phase
  /\ workers'[w].outcome = workers[w].outcome
  /\ workers'[w].max = workers[w].max

Drops(w) == workers'[w].lease = NoLease /\ workers'[w].phase \in {"idle", "down"}

Claims(w) ==
  /\ workers[w].phase = "idle" /\ workers'[w].phase = "claimed"
  /\ workers'[w].lease.owner = Self(w)
  /\ workers'[w].boot = workers[w].boot

Opens(w) ==
  /\ SameLease(w)
  /\ workers'[w].phase = "running"
  /\ workers'[w].max = jobs[workers[w].lease.job].max
  /\ UNCHANGED jobs

\* The handler is over. It pauses with its write, and retries if it read that
\* an attempt is left.
Decides(w) ==
  /\ SameLease(w)
  /\ workers[w].phase \in {"claimed", "running", "persisting"}
  /\ workers'[w].phase = "persisting"
  /\ workers'[w].outcome = "awaiting_review" =>
       HandlerWritesVersion(w, "awaiting_review") /\ Holds(workers[w].lease)
  /\ workers'[w].outcome = "retry" =>
       /\ workers[w].phase = "running"
       /\ workers[w].lease.attempt < workers[w].max
       /\ UNCHANGED jobs

\* Nothing is pending: the second statement follows.
Goes(w) ==
  /\ SameLease(w)
  /\ workers[w].phase = "persisting" /\ workers'[w].phase = "writing"
  /\ workers'[w].outcome = workers[w].outcome
  /\ Holds(workers[w].lease) /\ ~jobs[workers[w].lease.job].cancel
  /\ UNCHANGED jobs

\* Every step of the queue is one of these for each thread.
LEMMA ThreadMoves ==
  ASSUME TypeOK, [Next]_vars, NEW w \in Workers
  PROVE  Stays(w) \/ Drops(w) \/ Claims(w) \/ Opens(w) \/ Decides(w) \/ Goes(w)
<1>a. workers[w] \in WorkerRow
  BY DEF TypeOK
<1>1. ASSUME workers'[w] = workers[w] PROVE Stays(w)
  BY <1>1 DEF Stays, SameLease
<1>2. ASSUME NEW o, ToOutcome(w, o), workers[w].phase \in {"claimed", "running", "persisting"},
             o # "awaiting_review" /\ o # "retry"
      PROVE  Decides(w)
  BY <1>a, <1>2 DEF ToOutcome, TypeOK, WorkerRow, Decides, SameLease
<1>3. ASSUME ToIdle(w) PROVE Drops(w)
  BY <1>3 DEF ToIdle, Idle, FreshWorker, TypeOK, Drops
<1>4. ASSUME NEW u \in Workers, u # w, Thread(u) \/ Heartbeat(u) \/ Process(u) \/ Write(u)
      PROVE  Stays(w)
  <2>1. workers'[w] = workers[w]
    BY <1>4 DEF Thread, Claim, Open, Handler, HandlerWritesVersion, HandlerEnds, HandlerReturns,
          HandlerFailsForGood, HandlerRaises, HandlerStops, HandlerQuits, Persist, GiveUp,
          Heartbeat, BeatOnce, RefreshFlags, Observed, Process, Stop, RequestShutdown, Exit,
          Crash, Exits, Restart, Write, ToIdle, ToOutcome, TypeOK
  <2> QED BY <1>1, <2>1
<1>5. CASE Claim(w)
  BY <1>a, <1>5 DEF Claim, TypeOK, WorkerRow, Claims
<1>6. CASE Open(w)
  <2>1. CASE workers' = [workers EXCEPT ![w].phase = "running",
               ![w].max = jobs[workers[w].lease.job].max, ![w].seen = jobs[workers[w].lease.job].cancel]
    BY <1>a, <1>6, <2>1 DEF Open, TypeOK, WorkerRow, Opens, SameLease
  <2>2. CASE \E o \in {"release", "retry_if_left", "failed"} : ToOutcome(w, o)
    BY <1>6, <2>2, <1>2 DEF Open
  <2> QED BY <1>6, <2>1, <2>2, <1>3 DEF Open
<1>7. ASSUME NEW s \in VersionStatus, HandlerWritesVersion(w, s) PROVE Stays(w) \/ Decides(w)
  <2>1. CASE Holds(workers[w].lease) /\ s = "awaiting_review"
    <3>1. ToOutcome(w, "awaiting_review") /\ workers[w].phase = "running"
      BY <1>7, <2>1 DEF HandlerWritesVersion
    <3>2. SameLease(w) /\ workers'[w].phase = "persisting" /\ workers'[w].outcome = "awaiting_review"
      BY <1>a, <3>1 DEF ToOutcome, TypeOK, WorkerRow, SameLease
    <3> QED BY <1>7, <2>1, <3>1, <3>2 DEF Decides
  <2>2. CASE Holds(workers[w].lease) /\ s # "awaiting_review"
    BY <1>7, <2>2, <1>1 DEF HandlerWritesVersion
  <2>3. CASE ~Holds(workers[w].lease)
    BY <1>a, <1>7, <2>3 DEF HandlerWritesVersion, Stays, SameLease, TypeOK, WorkerRow
  <2> QED BY <2>1, <2>2, <2>3
<1>8. CASE HandlerEnds(w)
  <2>1. workers[w].phase = "running" /\ UNCHANGED jobs
    BY <1>8 DEF HandlerEnds, HandlerReturns, HandlerFailsForGood, HandlerRaises, HandlerStops, HandlerQuits
  <2>2. \/ \E o \in Outcomes \ {"awaiting_review", "retry"} : ToOutcome(w, o)
        \/ ToOutcome(w, "retry") /\ workers[w].lease.attempt < workers[w].max
    BY <1>8 DEF HandlerEnds, HandlerReturns, HandlerFailsForGood, HandlerRaises, HandlerStops,
                HandlerQuits, Outcomes
  <2>3. CASE ToOutcome(w, "retry") /\ workers[w].lease.attempt < workers[w].max
    BY <1>a, <2>1, <2>3 DEF ToOutcome, TypeOK, WorkerRow, Decides, SameLease
  <2> QED BY <1>2, <2>1, <2>2, <2>3
<1>9. CASE Persist(w)
  <2>1. CASE ToOutcome(w, "failed")
    BY <1>9, <2>1, <1>2 DEF Persist
  <2>2. CASE /\ workers' = [workers EXCEPT ![w].phase = "writing"]
             /\ Holds(workers[w].lease) /\ ~jobs[workers[w].lease.job].cancel /\ NoWrite
    BY <1>a, <1>9, <2>2 DEF Persist, NoWrite, TypeOK, WorkerRow, Goes, SameLease
  <2> QED BY <1>9, <2>1, <2>2, <1>3 DEF Persist
<1>10. CASE GiveUp(w) \/ Write(w)
  BY <1>10, <1>3 DEF GiveUp, Write
<1>11. CASE Heartbeat(w)
  BY <1>a, <1>11 DEF Heartbeat, BeatOnce, RefreshFlags, Observed, TypeOK, WorkerRow, Stays, SameLease
<1>12. CASE Process(w)
  <2>1. CASE Stop(w) \/ RequestShutdown(w)
    BY <1>a, <2>1 DEF Stop, RequestShutdown, TypeOK, WorkerRow, Stays, SameLease
  <2>2. CASE Exit(w) \/ Crash(w) \/ Restart(w)
    BY <2>2 DEF Exit, Crash, Exits, Restart, FreshWorker, TypeOK, Drops
  <2> QED BY <1>12, <2>1, <2>2 DEF Process
<1>13. CASE UNCHANGED workers
  BY <1>13, <1>1
<1>14. CASE Request \/ Tick \/ \E u \in Workers : Maintenance(u) \/ RecoverRow(u)
  <2>1. UNCHANGED workers
    BY <1>14 DEF Request, CreateVersion, EnqueueBuild, EnqueueRender, EnqueueCleanup, RequestCancel,
           RetryJob, ApproveReview, Tick, BackoffElapses, HeartbeatGoesStale, Maintenance,
           SelectStale, SelectOwnHost, RecoveryDone, RecoverCancelled, RecoverRow
  <2> QED BY <1>13, <2>1
<1> QED BY <1>4, <1>5, <1>6, <1>7, <1>8, <1>9, <1>10, <1>11, <1>12, <1>13, <1>14
        DEF Next, SecondStatement, OneStatement, vars, Thread, Handler

-----------------------------------------------------------------------------
(* A job that waits for review can be approved *)

\* A thread holds leases of its own process only.
OwnLeases ==
  \A w \in Workers : workers[w].lease.job # 0 => workers[w].lease.owner = Self(w)

\* Job j pauses or waits for review: it makes a lecture, and its version waits.
Waits(j) ==
  /\ jobs[j].kind = "generate_lecture"
  /\ versions[jobs[j].version].status = "awaiting_review"

\* A thread at the end of a pause for review.
Pausing(w) ==
  workers[w].phase \in {"persisting", "writing"} /\ workers[w].outcome = "awaiting_review"

\* The version waits from the write of the handler on, before the job does.
PausesWait ==
  \A w \in Workers :
    Pausing(w) /\ Holds(workers[w].lease) => Waits(workers[w].lease.job)

WaitingWait == \A j \in JobIds : jobs[j].status = "awaiting_review" => Waits(j)

ReviewInv == ActiveInv /\ OwnLeases /\ PausesWait /\ WaitingWait

\* While a mutating job is active only its own handler writes to its version.
LEMMA VersionKept ==
  ASSUME ActiveInv, OneActivePerVersion', Shape, NEW v \in Versions, NEW i \in JobIds,
         i \in ActiveFor(v), (i \in ActiveFor(v))'
  PROVE  \/ versions'[v] = versions[v]
         \/ \E w \in Workers, s \in VersionStatus :
              Writes(w, s) /\ workers[w].lease.job = i
<1>1. CASE Quiet \/ \E j \in JobIds : Parks(j) \/ \E w \in Workers : Takes(j, w)
  BY <1>1 DEF Quiet, Parks, Takes
<1>2. ASSUME NEW j \in JobIds, Ends(j) PROVE versions'[v] = versions[v]
  <2>1. i # j
    BY <1>2 DEF Ends, Ended, ActiveFor, Active, Terminal
  <2>2. ~(IsMutating(j) /\ jobs[j].version = v /\ ActiveFor(v) \subseteq {j})
    BY <2>1
  <2> QED BY <1>2, <2>2 DEF Ends, SettleVersion, ActiveInv, TypeOK
<1>3. ASSUME NEW w \in Workers, NEW s \in VersionStatus, Writes(w, s), versions'[v] # versions[v]
      PROVE  workers[w].lease.job = i
  <2> DEFINE j == workers[w].lease.job
  <2>1. v = jobs[j].version
    BY <1>3 DEF Writes
  <2>2. j \in JobIds /\ j \in ActiveFor(v)
    BY <1>3, <2>1, WriteOfHolder
  <2> QED BY <2>2 DEF ActiveInv, OneActivePerVersion, ActiveFor
<1>4. ASSUME NEW n \in JobIds, Creates(n) PROVE versions'[v] = versions[v]
  <2>1. i # n
    BY <1>4 DEF Creates, Began, IsNextId, ActiveFor, Active
  <2>2. ~(jobs'[n].kind \in MutatingKinds /\ jobs'[n].version = v)
    BY <1>4, <2>1 DEF Creates, Began, OneActivePerVersion, IsMutating, ActiveFor, Active
  <2> QED BY <1>4, <2>2 DEF Creates
<1> QED BY <1>1, <1>2, <1>3, <1>4 DEF Shape

\* A lease that is held after a step was held before it, or was just given out.
LEMMA HoldsBack ==
  ASSUME TypeOK, Shape, NEW l, Holds(l)'
  PROVE  \/ Holds(l) /\ Kept(l.job)
         \/ \E w \in Workers : Takes(l.job, w) /\ l.owner = Self(w)
<1>1. l.job \in JobIds /\ jobs'[l.job].status = "running" /\ jobs'[l.job].owner = l.owner
      /\ jobs'[l.job].attempts = l.attempt
  BY DEF Holds
<1>2. CASE Kept(l.job)
  BY <1>1, <1>2 DEF Kept, Holds
<1>3. CASE ~Kept(l.job)
  <2>1. \E w \in Workers : Taken(l.job, w)
    BY <1>1, <1>3, RowMoves DEF Began, Parked, Ended, Terminal
  <2>2. PICK w \in Workers : Taken(l.job, w)
    BY <2>1
  <2>3. ~Parked(l.job) /\ ~Ended(l.job) /\ ~Began(l.job)
    BY <1>1 DEF Parked, Ended, Began, Terminal
  <2>4. \E u \in Workers : Takes(l.job, u)
    BY <1>1, <1>3, <2>3 DEF Shape, Quiet, Parks, Ends, Takes, Writes, Creates, OthersKept
  <2>5. PICK u \in Workers : Takes(l.job, u)
    BY <2>4
  <2> QED BY <1>1, <2>5 DEF Takes, Taken
<1> QED BY <1>2, <1>3

\* A thread comes to the end of a pause from there or from the write of the
\* handler, with the lease it had.
LEMMA PausingBack ==
  ASSUME TypeOK, [Next]_vars, NEW w \in Workers, Pausing(w)'
  PROVE  /\ workers'[w].lease = workers[w].lease
         /\ \/ Pausing(w)
            \/ HandlerWritesVersion(w, "awaiting_review") /\ Holds(workers[w].lease)
BY ThreadMoves DEF Stays, Drops, Claims, Opens, Decides, Goes, SameLease, Pausing

\* So leases stay with the process they were given to.
LEMMA OwnLeasesStep == TypeOK /\ OwnLeases /\ [Next]_vars => OwnLeases'
<1> SUFFICES ASSUME TypeOK, OwnLeases, [Next]_vars, NEW w \in Workers, workers'[w].lease.job # 0
             PROVE  workers'[w].lease.owner = Self(w)'
  BY DEF OwnLeases
<1>1. CASE workers'[w].lease = workers[w].lease /\ workers'[w].boot = workers[w].boot
  BY <1>1 DEF OwnLeases, Self
<1>2. CASE workers'[w].lease.owner = Self(w) /\ workers'[w].boot = workers[w].boot
  BY <1>2 DEF Self
<1> QED BY <1>1, <1>2, ThreadMoves
        DEF Stays, Drops, Claims, Opens, Decides, Goes, SameLease, NoLease

\* A job that waits goes on waiting while it is active and its own handler
\* does not write.
LEMMA WaitsStays ==
  ASSUME ActiveInv, OneActivePerVersion', Shape, NEW j \in JobIds, Kept(j), Waits(j),
         jobs[j].status \in Active,
         \A u \in Workers, s \in VersionStatus : Writes(u, s) => workers[u].lease.job # j
  PROVE  Waits(j)'
<1>1. IsMutating(j)
  BY DEF Waits, IsMutating, MutatingKinds
<1>2. jobs[j].version \in Versions
  BY <1>1 DEF ActiveInv, JobsHaveVersions, Active
<1>3. j \in ActiveFor(jobs[j].version) /\ (j \in ActiveFor(jobs[j].version))'
  BY <1>1 DEF ActiveFor, IsMutating, Kept, SameJob
<1>4. PICK v : v = jobs[j].version
  OBVIOUS
<1>5. v \in Versions /\ j \in ActiveFor(v) /\ (j \in ActiveFor(v))'
  BY <1>2, <1>3, <1>4 DEF ActiveFor, Kept, SameJob
<1>6. versions'[v] = versions[v]
  BY <1>5, VersionKept
<1> QED BY <1>4, <1>6 DEF Waits, Kept, SameJob

\* The empty table, ...
LEMMA ReviewInit == Init => ReviewInv
<1> SUFFICES ASSUME Init PROVE ReviewInv
  OBVIOUS
<1>1. \A w \in Workers : workers[w].lease = NoLease /\ workers[w].phase = "idle"
  BY DEF Init, FreshWorker
<1>2. \A j \in JobIds : jobs[j].status = "absent"
  BY DEF Init, AbsentRow, NewRow
<1> QED BY <1>1, <1>2, ActiveInit DEF ReviewInv, OwnLeases, PausesWait, WaitingWait, NoLease, Pausing

\* ... pauses, ...
LEMMA PausesStep ==
  ASSUME ReviewInv, [Next]_vars, ActiveInv', NEW w \in Workers,
         Pausing(w)', Holds(workers[w].lease)'
  PROVE  Waits(workers[w].lease.job)'
<1>1. TypeOK /\ Shape
  BY StepHasShape DEF ReviewInv, ActiveInv
<1>2. workers'[w].lease = workers[w].lease
  BY <1>1, PausingBack
<1>3. PICK l : l = workers[w].lease
  OBVIOUS
<1>4. Holds(l)' /\ l.job \in JobIds
  BY <1>2, <1>3 DEF Holds
<1>5. workers[w].phase # "idle"
  BY <1>1, PausingBack DEF Pausing, HandlerWritesVersion
<1>6. Holds(l) /\ Kept(l.job)
  <2>1. SUFFICES ASSUME NEW u \in Workers, Takes(l.job, u), l.owner = Self(u) PROVE FALSE
    BY <1>1, <1>4, HoldsBack
  <2>2. l.owner = Self(w)
    BY <1>3, <1>4 DEF ReviewInv, OwnLeases, JobIds
  <2>3. u = w
    BY <2>1, <2>2 DEF Self
  <2> QED BY <1>5, <2>1, <2>3 DEF Takes
<1>7. CASE Pausing(w)
  <2>1. Waits(l.job) /\ jobs[l.job].status \in Active
    BY <1>3, <1>6, <1>7 DEF ReviewInv, PausesWait, Holds, Active
  <2>2. ASSUME NEW u \in Workers, NEW s \in VersionStatus, Writes(u, s), workers[u].lease.job = l.job
        PROVE  FALSE
    <3>1. workers[u].lease.owner = l.owner
      BY <1>6, <2>2 DEF Writes, Holds
    <3>2. Self(u) = Self(w)
      BY <1>3, <1>4, <2>2, <3>1 DEF ReviewInv, OwnLeases, JobIds
    <3>3. u = w
      BY <3>2 DEF Self
    <3> QED BY <1>7, <2>2, <3>3 DEF Writes, Pausing
  <2>3. Waits(l.job)'
    BY <1>1, <1>4, <1>6, <2>1, <2>2, WaitsStays DEF ReviewInv, ActiveInv
  <2> QED BY <1>2, <1>3, <2>3 DEF Waits
<1>8. CASE HandlerWritesVersion(w, "awaiting_review") /\ Holds(workers[w].lease)
  <2>1. jobs[l.job].kind = "generate_lecture"
    BY <1>3, <1>8 DEF HandlerWritesVersion
  <2>2. jobs[l.job].version \in Versions
    BY <1>4, <1>6, <2>1 DEF ReviewInv, ActiveInv, JobsHaveVersions, IsMutating, MutatingKinds, Holds
  <2>3. versions'[jobs[l.job].version].status = "awaiting_review"
    <3>1. DOMAIN versions = Versions
      BY <1>4 DEF ReviewInv, ActiveInv, TypeOK
    <3>2. PICK b : versions' = [versions EXCEPT ![jobs[l.job].version] =
                                  [status |-> "awaiting_review", built |-> b]]
      BY <1>3, <1>8 DEF HandlerWritesVersion
    <3> QED BY <2>2, <3>1, <3>2
  <2> QED BY <1>2, <1>3, <1>6, <2>1, <2>3 DEF Waits, Kept, SameJob
<1> QED BY <1>1, <1>7, <1>8, PausingBack

\* ... and rows.
LEMMA WaitingStep ==
  ASSUME ReviewInv, [Next]_vars, ActiveInv', NEW j \in JobIds, jobs'[j].status = "awaiting_review"
  PROVE  Waits(j)'
<1>1. TypeOK /\ Shape
  BY StepHasShape DEF ReviewInv, ActiveInv
<1>2. CASE Kept(j)
  <2>1. jobs[j].status = "awaiting_review" /\ Waits(j)
    BY <1>2 DEF Kept, ReviewInv, WaitingWait
  <2>2. \A u \in Workers, s \in VersionStatus : Writes(u, s) => workers[u].lease.job # j
    BY <2>1 DEF Writes, Holds
  <2> QED BY <1>1, <1>2, <2>1, <2>2, WaitsStays DEF ReviewInv, ActiveInv, Active
<1>3. CASE ~Kept(j)
  <2>1. Parked(j)
    BY <1>1, <1>3, RowMoves DEF Began, Ended, Taken, Terminal
  <2>2. PICK k \in JobIds : Parks(k) \/ Ends(k) \/ Creates(k) \/ \E w \in Workers : Takes(k, w)
    BY <1>1, <1>3 DEF Shape, Quiet, Writes
  <2>3. Parks(j)
    BY <1>3, <2>1, <2>2 DEF Parks, Ends, Takes, Creates, OthersKept, Parked, Ended, Taken, Began,
                            Terminal, IsNextId
  <2>4. PICK w \in Workers : Pausing(w) /\ Holds(workers[w].lease) /\ workers[w].lease.job = j
    BY <2>3 DEF Parks, ThreadParks, ReaperParks, Pausing
  <2>5. Waits(j)
    BY <2>4 DEF ReviewInv, PausesWait
  <2> QED BY <2>1, <2>3, <2>5 DEF Waits, Parks, Parked, SameJob
<1> QED BY <1>2, <1>3

\* A teacher can always approve a job that waits: its version waits as well,
\* in spite of stale workers of the job and of other requests (orchestrator
\* pause, queue.mark_awaiting_review, review_flow).
THEOREM ReviewCanGoOn == Spec => []ReviewReachable
<1>1. ReviewInv /\ [Next]_vars => ReviewInv'
  <2> SUFFICES ASSUME ReviewInv, [Next]_vars PROVE ReviewInv'
    OBVIOUS
  <2>1. ActiveInv'
    BY ActiveStep DEF ReviewInv
  <2>2. OwnLeases'
    BY OwnLeasesStep DEF ReviewInv, ActiveInv
  <2>3. PausesWait'
    BY <2>1, PausesStep DEF PausesWait
  <2>4. WaitingWait'
    BY <2>1, WaitingStep DEF WaitingWait
  <2> QED BY <2>1, <2>2, <2>3, <2>4 DEF ReviewInv
<1>2. ReviewInv => ReviewReachable
  BY DEF ReviewInv, WaitingWait, Waits, ReviewReachable
<1> QED BY <1>1, <1>2, ReviewInit, PTL DEF Spec

-----------------------------------------------------------------------------
(* Who puts a row back *)

\* A row that is put back was put back by the second statement of a transition.
LEMMA ParkedParks ==
  ASSUME TypeOK, Shape, NEW j \in JobIds, Parked(j)
  PROVE  \E w \in Workers : ThreadParks(w, j) \/ ReaperParks(w, j)
<1>1. PICK k \in JobIds : Parks(k) \/ Ends(k) \/ Creates(k) \/ \E w \in Workers : Takes(k, w)
  BY DEF Shape, Quiet, Writes, Kept, Parked
<1>2. Parks(j)
  BY <1>1 DEF Parks, Ends, Takes, Creates, OthersKept, Parked, Ended, Taken, Began,
              Terminal, IsNextId, Kept
<1> QED BY <1>2 DEF Parks

-----------------------------------------------------------------------------
(* A pending cancel wins, with a single writer *)

\* Between the statements of a transition no cancel becomes pending.
ThreadsUncancelled ==
  \A w \in Workers : workers[w].phase = "writing" /\ Holds(workers[w].lease)
                       => ~jobs[workers[w].lease.job].cancel

ReapersUncancelled ==
  \A w \in Workers : maint[w].stage = "checked" /\ StillLost(w)
                       => ~jobs[maint[w].lease.job].cancel

CancelInv == TypeOK /\ PendingCancelWins /\ ThreadsUncancelled /\ ReapersUncancelled

\* A second statement leaves the rows that go on running alone.
LEMMA SecondLeavesRunning ==
  ASSUME TypeOK, SecondStatement, NEW i \in JobIds, jobs'[i].status = "running"
  PROVE  jobs'[i] = jobs[i]
<1>1. PICK w \in Workers : Write(w) \/ RecoverRow(w)
  BY DEF SecondStatement
<1>2. ASSUME NEW j \in JobIds, NEW row, jobs' = [jobs EXCEPT ![j] = row], row.status # "running"
      PROVE  jobs'[i] = jobs[i]
  BY <1>2 DEF TypeOK
<1>3. \A j \in JobIds : \A s :
        /\ Over(jobs[j], s).status = s
        /\ WithStatus(jobs[j], s).status = s
  BY DEF Over, WithStatus, Unlocked, TypeOK, JobRow
<1>4. \A j \in JobIds : \A due, n : Requeued(jobs[j], due, n).status = "queued"
  BY DEF Requeued, WithStatus, Unlocked, TypeOK, JobRow
<1>5. ASSUME NEW j \in JobIds, End(j, "failed") PROVE jobs'[i] = jobs[i]
  BY <1>2, <1>3, <1>5 DEF End
<1>6. ASSUME NEW j \in JobIds, NEW due, NEW n, Requeue(j, due, n) PROVE jobs'[i] = jobs[i]
  BY <1>2, <1>4, <1>6 DEF Requeue
<1>7. ASSUME NEW j \in JobIds, AwaitReview(j) PROVE jobs'[i] = jobs[i]
  BY <1>2, <1>3, <1>7 DEF AwaitReview
<1>8. CASE Write(w)
  BY <1>5, <1>6, <1>7, <1>8 DEF Write, NoWrite, Holds
<1>9. CASE RecoverRow(w)
  BY <1>5, <1>6, <1>9 DEF RecoverRow, NoWrite, StillLost, Holds
<1> QED BY <1>1, <1>8, <1>9

\* A reaper between its statements was there before, or has just found no
\* cancel pending.
LEMMA CheckedBack ==
  ASSUME TypeOK, [Next]_vars, NEW w \in Workers, maint'[w].stage = "checked"
  PROVE  \/ maint'[w] = maint[w]
         \/ /\ maint'[w].lease = maint[w].lease /\ maint'[w].why = maint[w].why
            /\ UNCHANGED jobs
            /\ ~(StillLost(w) /\ jobs[maint[w].lease.job].cancel)
<1>a. maint[w] \in MaintRow
  BY DEF TypeOK, MaintRow
<1>1. CASE UNCHANGED maint
  BY <1>1
<1>2. ASSUME NEW u \in Workers, u # w, Maintenance(u) \/ Process(u) \/ RecoverRow(u)
      PROVE  maint'[w] = maint[w]
  BY <1>2 DEF Maintenance, SelectStale, SelectOwnHost, RecoveryDone, RecoverCancelled, AfterRow,
              RecoverRow, Process, Stop, RequestShutdown, Exit, Crash, Exits, Restart, TypeOK
<1>3. ASSUME AfterRow(w) PROVE FALSE
  BY <1>3 DEF AfterRow, NoRecovery, TypeOK
<1>4. CASE RecoverCancelled(w)
  BY <1>a, <1>3, <1>4 DEF RecoverCancelled, NoWrite, TypeOK, MaintRow
<1>5. ASSUME \/ \E j \in JobIds : SelectStale(w, j) \/ SelectOwnHost(w, j)
             \/ RecoveryDone(w)
      PROVE  FALSE
  BY <1>5 DEF SelectStale, SelectOwnHost, RecoveryDone, NoRecovery, TypeOK
<1>6. CASE RecoverRow(w)
  BY <1>3, <1>6 DEF RecoverRow
<1>7. CASE Process(w)
  <2>1. CASE Stop(w) \/ RequestShutdown(w)
    BY <1>1, <2>1 DEF Stop, RequestShutdown
  <2>2. CASE Exit(w) \/ Crash(w)
    BY <2>2 DEF Exit, Crash, Exits, NoRecovery, TypeOK
  <2>3. CASE Restart(w)
    BY <1>a, <2>3 DEF Restart, TypeOK, MaintRow
  <2> QED BY <1>7, <2>1, <2>2, <2>3 DEF Process
<1>8. CASE Request \/ Tick
  <2>1. UNCHANGED maint
    BY <1>8 DEF Request, CreateVersion, EnqueueBuild, EnqueueRender, EnqueueCleanup, RequestCancel,
          RetryJob, ApproveReview, Tick, BackoffElapses, HeartbeatGoesStale
  <2> QED BY <1>1, <2>1
<1>b. ASSUME NEW u \in Workers, Thread(u) PROVE UNCHANGED maint
  BY <1>b DEF Thread, Claim, Open, Handler, HandlerWritesVersion, HandlerEnds, HandlerReturns,
          HandlerFailsForGood, HandlerRaises, HandlerStops, HandlerQuits, Persist, GiveUp
<1>c. ASSUME NEW u \in Workers, Heartbeat(u) \/ Write(u) PROVE UNCHANGED maint
  BY <1>c DEF Heartbeat, BeatOnce, RefreshFlags, Write
<1>9. PICK u \in Workers :
        \/ UNCHANGED vars \/ Request \/ Tick \/ Write(u) \/ RecoverRow(u)
        \/ Thread(u) \/ Heartbeat(u) \/ Process(u) \/ Maintenance(u)
  BY DEF Next, SecondStatement, OneStatement
<1>10. CASE u = w /\ Maintenance(w)
  BY <1>4, <1>5, <1>10 DEF Maintenance
<1>11. CASE UNCHANGED maint \/ UNCHANGED vars
  BY <1>1, <1>11 DEF vars
<1> QED BY <1>2, <1>6, <1>7, <1>8, <1>9, <1>10, <1>11, <1>b, <1>c

\* With one writer, a process between two statements is the only one to act.
LEMMA OnlySecond ==
  ASSUME ~ReadCommitted, Next, NEW w \in Workers,
         workers[w].phase = "writing" \/ maint[w].stage = "checked"
  PROVE  SecondStatement
BY DEF Next, InTransaction

\* Rows that wait, ...
LEMMA RowsStep ==
  ASSUME CancelInv, Shape PROVE PendingCancelWins'
<1> SUFFICES ASSUME NEW j \in JobIds, jobs'[j].status \in {"queued", "awaiting_review"}
             PROVE  ~jobs'[j].cancel
  BY DEF PendingCancelWins
<1>1. CASE Parked(j)
  <2>1. ~jobs[j].cancel
    BY <1>1, ParkedParks DEF CancelInv, ThreadsUncancelled, ReapersUncancelled, ThreadParks, ReaperParks
  <2> QED BY <1>1, <2>1 DEF Parked
<1>2. CASE Kept(j)
  BY <1>2 DEF Kept, CancelInv, PendingCancelWins
<1>3. CASE Began(j) \/ Ended(j) \/ \E w \in Workers : Taken(j, w)
  BY <1>3 DEF Began, Ended, Taken, Terminal
<1> QED BY <1>1, <1>2, <1>3, RowMoves DEF CancelInv

\* ... threads ...
LEMMA ThreadsStep ==
  ASSUME CancelInv, ~ReadCommitted, Next PROVE ThreadsUncancelled'
<1> SUFFICES ASSUME NEW w \in Workers, workers'[w].phase = "writing", Holds(workers[w].lease)'
             PROVE  ~jobs'[workers'[w].lease.job].cancel
  BY DEF ThreadsUncancelled
<1>1. Stays(w) \/ Goes(w)
  BY ThreadMoves DEF CancelInv, Drops, Claims, Opens, Decides
<1>2. workers'[w].lease = workers[w].lease
  BY <1>1 DEF Stays, Goes, SameLease
<1>3. CASE Goes(w)
  BY <1>2, <1>3 DEF Goes
<1>4. CASE Stays(w)
  <2>1. SecondStatement
    BY <1>4, OnlySecond DEF Stays
  <2>2. workers[w].lease.job \in JobIds /\ jobs'[workers[w].lease.job].status = "running"
    BY <1>2 DEF Holds
  <2>3. jobs'[workers[w].lease.job] = jobs[workers[w].lease.job]
    BY <2>1, <2>2, SecondLeavesRunning DEF CancelInv
  <2>4. Holds(workers[w].lease)
    BY <1>2, <2>2, <2>3 DEF Holds
  <2> QED BY <1>2, <1>4, <2>3, <2>4 DEF Stays, CancelInv, ThreadsUncancelled
<1> QED BY <1>1, <1>3, <1>4

\* ... and reapers.
LEMMA ReapersStep ==
  ASSUME CancelInv, ~ReadCommitted, Next PROVE ReapersUncancelled'
<1> SUFFICES ASSUME NEW w \in Workers, maint'[w].stage = "checked", StillLost(w)'
             PROVE  ~jobs'[maint'[w].lease.job].cancel
  BY DEF ReapersUncancelled
<1>1. CASE maint'[w] = maint[w]
  <2>1. SecondStatement
    BY <1>1, OnlySecond
  <2>2. maint[w].lease.job \in JobIds /\ jobs'[maint[w].lease.job].status = "running"
    BY <1>1 DEF StillLost, Holds
  <2>3. jobs'[maint[w].lease.job] = jobs[maint[w].lease.job]
    BY <2>1, <2>2, SecondLeavesRunning DEF CancelInv
  <2>4. StillLost(w)
    BY <1>1, <2>2, <2>3 DEF StillLost, Holds
  <2> QED BY <1>1, <2>3, <2>4 DEF CancelInv, ReapersUncancelled
<1>2. CASE /\ maint'[w].lease = maint[w].lease /\ maint'[w].why = maint[w].why
           /\ UNCHANGED jobs
           /\ ~(StillLost(w) /\ jobs[maint[w].lease.job].cancel)
  BY <1>2 DEF StillLost, Holds
<1> QED BY <1>1, <1>2, CheckedBack DEF CancelInv

\* queue.py: "A pending user cancellation wins over every non-final
\* transition (retry, release, review)", where one writer lock serialises
\* transactions (SQLite).  With PostgreSQL a run shows that it does not.
THEOREM CancelWins ==
  ASSUME ~ReadCommitted PROVE Spec => []PendingCancelWins
<1>1. Init => CancelInv
  BY InitType DEF Init, CancelInv, PendingCancelWins, ThreadsUncancelled, ReapersUncancelled,
                  AbsentRow, NewRow, FreshWorker, NoRecovery
<1>2. CancelInv /\ [Next]_vars => CancelInv'
  <2> SUFFICES ASSUME CancelInv, [Next]_vars PROVE CancelInv'
    OBVIOUS
  <2>1. CASE Next
    <3>1. TypeOK' /\ Shape
      BY NextType, StepHasShape DEF CancelInv
    <3> QED BY <2>1, <3>1, RowsStep, ThreadsStep, ReapersStep DEF CancelInv
  <2>2. CASE UNCHANGED vars
    BY <2>2 DEF vars, CancelInv, TypeOK, PendingCancelWins, ThreadsUncancelled, ReapersUncancelled,
                Holds, StillLost
  <2> QED BY <2>1, <2>2
<1>3. CancelInv => PendingCancelWins
  BY DEF CancelInv
<1> QED BY <1>1, <1>2, <1>3, PTL DEF Spec

-----------------------------------------------------------------------------
(* Attempts *)

\* The thread that retries has an attempt left, ...
RetriesLeft ==
  \A w \in Workers :
    /\ workers[w].phase \in {"persisting", "writing"} /\ workers[w].outcome = "retry"
    /\ Holds(workers[w].lease)
    => LET j == workers[w].lease.job IN jobs[j].attempts < jobs[j].max

\* ... because the maximum it read is no larger than the one of the row.
MaximumRead ==
  \A w \in Workers :
    workers[w].phase = "running" /\ Holds(workers[w].lease)
      => workers[w].max <= jobs[workers[w].lease.job].max

AttemptInv == TypeOK /\ OwnLeases /\ AttemptsBounded /\ RetriesLeft /\ MaximumRead

\* A lease that a busy thread holds after a step was held before it, and its
\* row keeps its attempts and its maximum.
LEMMA LeaseKept ==
  ASSUME TypeOK, OwnLeases, [Next]_vars, NEW w \in Workers, SameLease(w),
         workers[w].phase # "idle", Holds(workers[w].lease)'
  PROVE  /\ Holds(workers[w].lease)
         /\ workers[w].lease.job \in JobIds
         /\ Kept(workers[w].lease.job)
<1>1. Shape
  BY StepHasShape
<1>2. PICK l : l = workers[w].lease
  OBVIOUS
<1>3. Holds(l)' /\ l.job \in JobIds
  BY <1>2 DEF Holds, SameLease
<1>4. l.owner = Self(w)
  BY <1>2, <1>3 DEF OwnLeases, JobIds
<1>5. ~\E u \in Workers : Takes(l.job, u) /\ l.owner = Self(u)
  <2> SUFFICES ASSUME NEW u \in Workers, Takes(l.job, u), l.owner = Self(u) PROVE FALSE
    OBVIOUS
  <2>1. u = w
    BY <1>4 DEF Self
  <2> QED BY <2>1 DEF Takes
<1> QED BY <1>1, <1>2, <1>3, <1>5, HoldsBack

\* Rows, ...
LEMMA BoundStep ==
  ASSUME AttemptInv, Shape, TypeOK' PROVE AttemptsBounded'
<1> SUFFICES ASSUME NEW j \in JobIds
             PROVE  /\ jobs'[j].status = "running" => jobs'[j].attempts <= jobs'[j].max
                    /\ jobs'[j].status = "queued" => jobs'[j].attempts < jobs'[j].max
  BY DEF AttemptsBounded
<1>a. jobs[j].attempts \in Nat /\ jobs[j].max \in Nat /\ jobs'[j].max \in Nat
  BY DEF AttemptInv, TypeOK, JobRow
<1>1. CASE Parked(j)
  <2>1. PICK w \in Workers : ThreadParks(w, j) \/ ReaperParks(w, j)
    BY <1>1, ParkedParks DEF AttemptInv
  <2>2. CASE ReaperParks(w, j)
    BY <1>1, <2>2 DEF ReaperParks, Parked
  <2>3. CASE ThreadParks(w, j) /\ jobs'[j].status = "queued"
    <3>1. jobs[j].attempts <= jobs[j].max
      BY <1>1 DEF Parked, AttemptInv, AttemptsBounded
    <3>2. CASE workers[w].outcome = "retry"
      <4>1. jobs[j].attempts < jobs[j].max
        BY <2>3, <3>2 DEF ThreadParks, AttemptInv, RetriesLeft
      <4>3. jobs'[j].attempts = jobs[j].attempts
        BY <1>1 DEF Parked
      <4> QED BY <1>1, <1>a, <2>3, <4>1, <4>3 DEF ThreadParks, Parked
    <3>3. CASE workers[w].outcome # "retry"
      BY <1>1, <1>a, <2>3, <3>1, <3>3 DEF ThreadParks, Parked
    <3> QED BY <3>2, <3>3
  <2>4. CASE jobs'[j].status # "queued"
    BY <1>1, <2>4 DEF Parked
  <2> QED BY <2>1, <2>2, <2>3, <2>4
<1>2. CASE Kept(j)
  BY <1>2 DEF Kept, AttemptInv, AttemptsBounded
<1>3. CASE Began(j)
  BY <1>3, ConstantsAssumption DEF Began
<1>4. CASE Ended(j)
  BY <1>4 DEF Ended, Terminal
<1>5. CASE \E w \in Workers : Taken(j, w)
  BY <1>5, <1>a DEF Taken, AttemptInv, AttemptsBounded
<1> QED BY <1>1, <1>2, <1>3, <1>4, <1>5, RowMoves DEF AttemptInv

\* ... what threads have read ...
LEMMA MaximumStep ==
  ASSUME AttemptInv, [Next]_vars, TypeOK' PROVE MaximumRead'
<1> SUFFICES ASSUME NEW w \in Workers, workers'[w].phase = "running", Holds(workers[w].lease)'
             PROVE  workers'[w].max <= jobs'[workers'[w].lease.job].max
  BY DEF MaximumRead
<1>1. CASE Opens(w)
  <2>1. workers'[w].max = jobs'[workers'[w].lease.job].max
    BY <1>1 DEF Opens, SameLease
  <2>2. workers'[w].max \in Nat
    BY DEF TypeOK, WorkerRow
  <2> QED BY <2>1, <2>2
<1>2. CASE Stays(w)
  <2>1. Holds(workers[w].lease) /\ Kept(workers[w].lease.job)
    BY <1>2, LeaseKept DEF Stays, AttemptInv
  <2>2. workers[w].max <= jobs[workers[w].lease.job].max
    BY <1>2, <2>1 DEF Stays, AttemptInv, MaximumRead
  <2> QED BY <1>2, <2>1, <2>2 DEF Stays, SameLease, Kept
<1> QED BY <1>1, <1>2, ThreadMoves DEF AttemptInv, Drops, Claims, Decides, Goes

\* ... and decided.
LEMMA RetriesStep ==
  ASSUME AttemptInv, [Next]_vars PROVE RetriesLeft'
<1> SUFFICES ASSUME NEW w \in Workers, workers'[w].phase \in {"persisting", "writing"},
                    workers'[w].outcome = "retry", Holds(workers[w].lease)'
             PROVE  jobs'[workers'[w].lease.job].attempts < jobs'[workers'[w].lease.job].max
  BY DEF RetriesLeft
<1>1. SameLease(w) /\ workers[w].phase # "idle"
  BY ThreadMoves DEF AttemptInv, Stays, Drops, Claims, Opens, Decides, Goes
<1>2. Holds(workers[w].lease) /\ Kept(workers[w].lease.job) /\ workers[w].lease.job \in JobIds
  BY <1>1, LeaseKept DEF AttemptInv
<1>3. jobs[workers[w].lease.job].attempts < jobs[workers[w].lease.job].max
  <2>1. CASE Stays(w) \/ Goes(w)
    BY <1>2, <2>1 DEF Stays, Goes, AttemptInv, RetriesLeft
  <2>2. CASE Decides(w)
    <3>1. /\ workers[w].phase = "running" /\ workers[w].lease.attempt < workers[w].max
          /\ jobs[workers[w].lease.job].attempts = workers[w].lease.attempt
      BY <1>2, <2>2 DEF Decides, Holds
    <3>2. workers[w].max <= jobs[workers[w].lease.job].max
      BY <1>2, <3>1 DEF AttemptInv, MaximumRead
    <3>3. /\ workers[w].max \in Nat /\ jobs[workers[w].lease.job].max \in Nat
          /\ jobs[workers[w].lease.job].attempts \in Nat
      BY <1>2 DEF AttemptInv, TypeOK, WorkerRow, JobRow
    <3> QED BY <3>1, <3>2, <3>3
  <2> QED BY <2>1, <2>2, ThreadMoves DEF AttemptInv, Drops, Claims, Opens
<1> QED BY <1>1, <1>2, <1>3 DEF SameLease, Kept

\* No attempt is started beyond max_attempts, although claim_next does not
\* look: a job goes back to the queue with an attempt left, or with one more.
THEOREM AttemptsLimited == Spec => []AttemptsBounded
<1>1. Init => AttemptInv
  BY InitType DEF Init, AttemptInv, OwnLeases, AttemptsBounded, RetriesLeft, MaximumRead,
                  AbsentRow, NewRow, FreshWorker, NoLease
<1>2. AttemptInv /\ [Next]_vars => AttemptInv'
  <2> SUFFICES ASSUME AttemptInv, [Next]_vars PROVE AttemptInv'
    OBVIOUS
  <2>1. TypeOK' /\ Shape
    BY NextType, StepHasShape DEF AttemptInv
  <2>2. OwnLeases'
    BY OwnLeasesStep DEF AttemptInv
  <2> QED BY <2>1, <2>2, BoundStep, MaximumStep, RetriesStep DEF AttemptInv
<1>3. AttemptInv => AttemptsBounded
  BY DEF AttemptInv
<1> QED BY <1>1, <1>2, <1>3, PTL DEF Spec

=============================================================================
