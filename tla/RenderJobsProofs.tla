-------------------------- MODULE RenderJobsProofs --------------------------
(* Proofs about the video renders: a Render row next to the chain of jobs  *)
(* that produce it.                                                        *)
(*                                                                         *)
(* Every step changes the two tables in one of six ways (StepHasShape) and *)
(* every thread makes one of four moves (ThreadMoves); the invariants are  *)
(* proved way by way.                                                      *)
EXTENDS RenderJobs, FiniteSetTheorems, TLAPS

-----------------------------------------------------------------------------
(* Types *)

RenderRow == [status : Status, job : JobIds \cup {0}, version : Versions \cup {"none"}]

\* Ids are positive numbers.
LEMMA Ids ==
  /\ JobIds \subseteq Nat \ {0} /\ Renders \subseteq Nat \ {0}
  /\ 0 \notin JobIds /\ 0 \notin Renders
BY ConstantsAssumption DEF JobIds, Renders

\* The rows a job and a render begin with, and the rows of idle threads.
LEMMA RowTypes ==
  /\ NobodyJob \in JobRow
  /\ \A v \in Versions \cup {"none"}, j \in JobIds : QueuedRender(v, j) \in RenderRow
  /\ Idle \in WorkerRow
  /\ NoRequest \in RequestRow
<1>1. NobodyJob \in JobRow
  BY DEF NobodyJob, JobRow, Status
<1> QED BY <1>1 DEF QueuedRender, RenderRow, Idle, WorkerRow, Outcomes, NoRequest, RequestRow,
       Status, Active

\* The settings of a deployment.
LEMMA SiteType ==
  ASSUME site \in Sites
  PROVE  site.limit \in Nat \ {0} /\ site.attempts \in Nat \ {0} /\ site.pauses \in BOOLEAN
BY ConstantsAssumption DEF Site

\* The job a start or a retry inserts.
LEMMA NewJobType ==
  ASSUME site \in Sites, NEW r \in Renders PROVE NewJob(r) \in JobRow
BY SiteType DEF NewJob, NobodyJob, JobRow, Status, Active

\* A job that ends keeps its shape, and so do the rows it settles.
LEMMA EndType ==
  ASSUME jobs \in [JobIds -> JobRow], renders \in [Renders -> RenderRow],
         NEW j \in JobIds, NEW s \in Ended, End(j, s)
  PROVE  /\ jobs' \in [JobIds -> JobRow] /\ renders' \in [Renders -> RenderRow]
         /\ jobs' = [jobs EXCEPT ![j] = Over(j, s)]
         /\ Over(j, s).status = s /\ Over(j, s).render = jobs[j].render
         /\ Over(j, s).retried = jobs[j].retried /\ Over(j, s).cancel = FALSE
<1>1. jobs[j] \in JobRow
  OBVIOUS
<1>2. NobodyJob \in JobRow /\ NobodyJob.cancel = FALSE
  BY RowTypes DEF NobodyJob
<1>3. /\ Over(j, s) \in JobRow
      /\ Over(j, s).status = s /\ Over(j, s).render = jobs[j].render
      /\ Over(j, s).retried = jobs[j].retried /\ Over(j, s).cancel = FALSE
  BY <1>1, <1>2 DEF Over, JobRow, Status
<1>4. ASSUME NEW r \in Renders PROVE Settled(j, s)[r] \in RenderRow
  <2>1. renders[r] \in RenderRow
    OBVIOUS
  <2>2. [renders[r] EXCEPT !.status = s] \in RenderRow
    BY <2>1 DEF RenderRow, Status
  <2> QED BY <2>1, <2>2 DEF Settled
<1>5. Settled(j, s) \in [Renders -> RenderRow]
  BY <1>4 DEF Settled
<1> QED BY <1>2, <1>3, <1>5 DEF End

\* A job that goes on in the queue keeps its shape.
LEMMA TurnType ==
  ASSUME jobs \in [JobIds -> JobRow], NEW j \in JobIds, NEW s \in Status, NEW a \in Nat, NEW m \in Nat,
         NEW c \in BOOLEAN, NEW x \in BOOLEAN
  PROVE  [jobs[j] EXCEPT !.status = s, !.attempts = a, !.max = m, !.cancel = c, !.retried = x] \in JobRow
<1>1. jobs[j] \in JobRow
  OBVIOUS
<1> QED BY <1>1 DEF JobRow

\* Requeue and the steps that look like it.
LEMMA RequeueType ==
  ASSUME jobs \in [JobIds -> JobRow], NEW j \in JobIds, NEW n \in {0, 1}, Requeue(j, n)
  PROVE  jobs' \in [JobIds -> JobRow]
<1>1. jobs[j] \in JobRow
  OBVIOUS
<1>a. jobs[j].max \in Nat /\ jobs[j].max + n \in Nat
  BY <1>1 DEF JobRow
<1>2. [jobs[j] EXCEPT !.status = "queued", !.max = jobs[j].max + n] \in JobRow
  BY <1>1, <1>a DEF JobRow, Status, Active
<1> QED BY <1>2 DEF Requeue

\* The handler writes its row: a new status, and perhaps its own job.
LEMMA PaintType ==
  ASSUME renders \in [Renders -> RenderRow], NEW r \in Renders, NEW s \in Status, NEW j \in JobIds
  PROVE  /\ [renders EXCEPT ![r].status = s] \in [Renders -> RenderRow]
         /\ [renders EXCEPT ![r].status = s, ![r].job = j] \in [Renders -> RenderRow]
<1>1. renders[r] \in RenderRow
  OBVIOUS
<1>2. [renders[r] EXCEPT !.status = s] \in RenderRow
  BY <1>1 DEF RenderRow
<1>3. [renders[r] EXCEPT !.status = s, !.job = j] \in RenderRow
  BY <1>1 DEF RenderRow
<1>4. [renders EXCEPT ![r].status = s] = [renders EXCEPT ![r] = [renders[r] EXCEPT !.status = s]]
  OBVIOUS
<1>5. [renders EXCEPT ![r].status = s, ![r].job = j]
      = [renders EXCEPT ![r] = [renders[r] EXCEPT !.status = s, !.job = j]]
  OBVIOUS
<1> QED BY <1>2, <1>3, <1>4, <1>5

-----------------------------------------------------------------------------
(* A row and the chain of its jobs *)

Exists(j) == jobs[j].status # "absent"
Shown(r) == renders[r].status # "absent"

\* Rows are given their ids in order.
IdsInOrder == \A j, k \in JobIds : k < j /\ Exists(j) => Exists(k)

JobHasRender == \A j \in JobIds : Exists(j) => jobs[j].render \in Renders /\ Shown(jobs[j].render)
AbsentFresh == \A j \in JobIds : ~Exists(j) => jobs[j].render = 0

\* A row names one of its jobs.
RenderHasJob ==
  \A r \in Renders : Shown(r) =>
    /\ renders[r].job \in JobIds
    /\ Exists(renders[r].job)
    /\ jobs[renders[r].job].render = r

\* The jobs of a row are a chain of retries: each but the last was retried.
LastJob ==
  \A j, k \in JobIds :
    Exists(j) /\ Exists(k) /\ jobs[j].render = jobs[k].render /\ ~jobs[j].retried /\ ~jobs[k].retried
      => j = k
NewestJob ==
  \A j, k \in JobIds :
    Exists(j) /\ Exists(k) /\ jobs[j].render = jobs[k].render /\ ~jobs[j].retried => k <= j
RetriedOver == \A j \in JobIds : jobs[j].retried => jobs[j].status \in Retryable

\* A cancel is pending only while the job runs.
CancelRuns == \A j \in JobIds : jobs[j].cancel => jobs[j].status = "running"

\* A thread's attempt is never ahead of the row's.
ThreadHasJob ==
  \A w \in Workers : workers[w].stage # "idle" =>
    /\ workers[w].job \in JobIds
    /\ Exists(workers[w].job)
    /\ jobs[workers[w].job].status \in Active => workers[w].attempt <= jobs[workers[w].job].attempts
IdleForgets == \A w \in Workers : workers[w].stage = "idle" => workers[w].job = 0
RetryHasJob ==
  \A q \in Requests : requests[q].stage \in RetryStages =>
    requests[q].job \in JobIds /\ Exists(requests[q].job)

RowsInv ==
  /\ IdsInOrder /\ JobHasRender /\ AbsentFresh /\ RenderHasJob
  /\ LastJob /\ NewestJob /\ RetriedOver /\ CancelRuns
ChainInv == TypeOK /\ RowsInv /\ ThreadHasJob /\ IdleForgets /\ RetryHasJob

\* What a thread at work and a retry refer to is there.
LEMMA TargetShown ==
  ASSUME ChainInv
  PROVE  /\ \A w \in Workers : workers[w].stage # "idle" =>
              /\ Job(w) \in JobIds /\ Exists(Job(w))
              /\ Target(w) \in Renders /\ Shown(Target(w))
         /\ \A w \in Workers : Holds(w) => workers[w].stage # "idle"
         /\ \A q \in Requests : requests[q].stage \in RetryStages =>
              /\ requests[q].job \in JobIds /\ Exists(requests[q].job)
              /\ jobs[requests[q].job].render \in Renders /\ Shown(jobs[requests[q].job].render)
BY Ids DEF ChainInv, RowsInv, JobHasRender, ThreadHasJob, IdleForgets, RetryHasJob, Job, Target, Holds

-----------------------------------------------------------------------------
(* The ways the tables change *)

Others(j) == \A k \in JobIds \ {j} : jobs'[k] = jobs[k]
OtherRows(r) == \A x \in Renders \ {r} : renders'[x] = renders[x]

\* An active job ends; its row is settled. If its cancel is pending it ends
\* cancelled, unless the holder of the lease ends it another way and rests.
Ends(j, s) ==
  /\ j \in JobIds /\ s \in Ended
  /\ jobs[j].status \in Active
  /\ Others(j)
  /\ jobs'[j].status = s /\ jobs'[j].render = jobs[j].render
  /\ jobs'[j].retried = jobs[j].retried /\ jobs'[j].cancel = FALSE
  /\ \A r \in Renders :
       IF renders[r].job = j /\ renders[r].status \in Active /\ s \in Retryable
       THEN /\ renders'[r].status = s /\ renders'[r].job = renders[r].job
            /\ renders'[r].version = renders[r].version
       ELSE renders'[r] = renders[r]
  /\ s = "succeeded" => \E w \in Workers : Holds(w) /\ Job(w) = j /\ workers[w].outcome = "succeeded"
  /\ jobs[j].cancel /\ s # "cancelled" =>
       \E w \in Workers : Holds(w) /\ Job(w) = j /\ workers'[w] = Idle

\* An active job stays active: claimed, queued again, or asked to stop.
Turns(j) ==
  /\ j \in JobIds
  /\ jobs[j].status \in Active
  /\ Others(j)
  /\ jobs'[j].render = jobs[j].render /\ jobs'[j].retried = jobs[j].retried
  /\ \/ /\ jobs[j].status = "queued" /\ jobs'[j].status = "running"
        /\ jobs'[j].attempts = jobs[j].attempts + 1 /\ jobs'[j].cancel = jobs[j].cancel
     \/ /\ jobs[j].status = "running" /\ jobs'[j].status = "queued" /\ ~jobs[j].cancel
        /\ jobs'[j].attempts = jobs[j].attempts /\ jobs'[j].cancel = FALSE
     \/ /\ jobs[j].status = "running" /\ jobs'[j].status = "running"
        /\ jobs'[j].attempts = jobs[j].attempts /\ jobs'[j].cancel = TRUE
  /\ UNCHANGED renders

\* The handler of thread w writes its row.
Paints(w) ==
  /\ workers[w].stage \in {"opened", "rendering"}
  /\ UNCHANGED jobs
  /\ OtherRows(Target(w))
  /\ renders'[Target(w)].version = renders[Target(w)].version
  /\ \/ /\ renders[Target(w)].status \in {"queued", "running", "failed"}
        /\ renders'[Target(w)].status = "running" /\ renders'[Target(w)].job = Job(w)
     \/ /\ renders[Target(w)].status \in Active
        /\ renders'[Target(w)].status \in Ended
        /\ renders'[Target(w)].job = renders[Target(w)].job
        /\ renders'[Target(w)].status = "cancelled" => workers[w].seen

Inserts(q, n, r) ==
  /\ requests[q].stage = "start_admitted"
  /\ n \in JobIds /\ r \in Renders
  /\ IsNextId(jobs, n) /\ IsNextId(renders, r)
  /\ Others(n) /\ jobs'[n] = NewJob(r)
  /\ OtherRows(r) /\ renders'[r] = QueuedRender(requests[q].version, n)
  /\ requests'[q] = NoRequest

Copies(q, n, old) ==
  /\ requests[q].stage = "retry_admitted"
  /\ old = requests[q].job /\ old \in JobIds
  /\ jobs[old].status \in Retryable /\ ~jobs[old].retried
  /\ n \in JobIds /\ n # old /\ IsNextId(jobs, n)
  /\ \A k \in JobIds \ {n, old} : jobs'[k] = jobs[k]
  /\ jobs'[old].status = jobs[old].status /\ jobs'[old].render = jobs[old].render
  /\ jobs'[old].retried = TRUE /\ jobs'[old].cancel = jobs[old].cancel
  /\ jobs'[n] = NewJob(jobs[old].render)
  /\ OtherRows(jobs[old].render)
  /\ renders'[jobs[old].render] = QueuedRender(Version(old), n)
  /\ requests'[q] = NoRequest

Still == UNCHANGED <<jobs, renders>>
Shape ==
  \/ Still
  \/ \E j \in JobIds : Turns(j) \/ \E s \in Ended : Ends(j, s)
  \/ \E w \in Workers : Paints(w)
  \/ \E q \in Requests, n \in JobIds :
       (\E r \in Renders : Inserts(q, n, r)) \/ (\E old \in JobIds : Copies(q, n, old))

\* What a step does to one row of jobs.
LEMMA OneRow ==
  ASSUME Shape, NEW j \in JobIds, ~IsNextId(jobs, j)
  PROVE  \/ jobs'[j] = jobs[j] \/ Turns(j) \/ \E s \in Ended : Ends(j, s)
         \/ \E q \in Requests, n \in JobIds : Copies(q, n, j)
<1>1. CASE Still \/ \E w \in Workers : Paints(w)
  BY <1>1 DEF Still, Paints
<1>2. CASE \E k \in JobIds : Turns(k)
  <2>1. PICK k \in JobIds : Turns(k)
    BY <1>2
  <2>2. k = j \/ jobs'[j] = jobs[j]
    BY <2>1 DEF Turns, Others
  <2> QED BY <2>1, <2>2
<1>3. CASE \E k \in JobIds, s \in Ended : Ends(k, s)
  <2>1. PICK k \in JobIds, s \in Ended : Ends(k, s)
    BY <1>3
  <2>2. k = j \/ jobs'[j] = jobs[j]
    BY <2>1 DEF Ends, Others
  <2> QED BY <2>1, <2>2
<1>4. CASE \E q \in Requests, n \in JobIds, r \in Renders : Inserts(q, n, r)
  BY <1>4 DEF Inserts, Others
<1>5. CASE \E q \in Requests, n, old \in JobIds : Copies(q, n, old)
  <2>1. PICK q \in Requests, n \in JobIds, old \in JobIds : Copies(q, n, old)
    BY <1>5
  <2>2. old = j \/ jobs'[j] = jobs[j]
    BY <2>1 DEF Copies
  <2> QED BY <2>1, <2>2
<1> QED BY <1>1, <1>2, <1>3, <1>4, <1>5 DEF Shape

\* What each transition of the queue does to the two tables.
LEMMA EndEnds ==
  ASSUME TypeOK, NEW j \in JobIds, NEW s \in Ended, End(j, s), jobs[j].status \in Active,
         s = "succeeded" => \E w \in Workers : Holds(w) /\ Job(w) = j /\ workers[w].outcome = "succeeded",
         jobs[j].cancel /\ s # "cancelled" =>
           \E w \in Workers : Holds(w) /\ Job(w) = j /\ workers'[w] = Idle
  PROVE  Ends(j, s) /\ jobs' \in [JobIds -> JobRow] /\ renders' \in [Renders -> RenderRow]
<1>a. jobs \in [JobIds -> JobRow] /\ renders \in [Renders -> RenderRow]
  BY DEF TypeOK, RenderRow
<1>1. /\ jobs' \in [JobIds -> JobRow] /\ renders' \in [Renders -> RenderRow]
      /\ jobs' = [jobs EXCEPT ![j] = Over(j, s)]
      /\ Over(j, s).status = s /\ Over(j, s).render = jobs[j].render
      /\ Over(j, s).retried = jobs[j].retried /\ Over(j, s).cancel = FALSE
  BY <1>a, EndType
<1>2. ASSUME NEW r \in Renders
      PROVE  IF renders[r].job = j /\ renders[r].status \in Active /\ s \in Retryable
             THEN /\ renders'[r].status = s /\ renders'[r].job = renders[r].job
                  /\ renders'[r].version = renders[r].version
             ELSE renders'[r] = renders[r]
  <2>1. renders[r] \in RenderRow
    BY <1>a
  <2> DEFINE row == [renders[r] EXCEPT !.status = s]
  <2>2. row.status = s /\ row.job = renders[r].job /\ row.version = renders[r].version
    BY <2>1 DEF RenderRow
  <2> HIDE DEF row
  <2>3. renders'[r] = IF renders[r].job = j /\ renders[r].status \in Active /\ s \in Retryable
                      THEN row ELSE renders[r]
    BY DEF End, Settled, row
  <2> QED BY <2>2, <2>3
<1>3. jobs'[j] = Over(j, s) /\ Others(j)
  BY <1>1, <1>a DEF Others
<1> QED BY <1>1, <1>2, <1>3 DEF Ends

\* A requeue or release moves a running job on.
LEMMA RequeueTurns ==
  ASSUME TypeOK, NEW j \in JobIds, NEW n \in {0, 1}, Requeue(j, n),
         jobs[j].status = "running", ~jobs[j].cancel
  PROVE  Turns(j) /\ jobs' \in [JobIds -> JobRow]
<1>a. jobs \in [JobIds -> JobRow]
  BY DEF TypeOK
<1>1. jobs[j] \in JobRow
  BY <1>a
<1> DEFINE row == [jobs[j] EXCEPT !.status = "queued", !.max = jobs[j].max + n]
<1>2. /\ row.status = "queued" /\ row.render = jobs[j].render /\ row.retried = jobs[j].retried
      /\ row.attempts = jobs[j].attempts /\ row.cancel = jobs[j].cancel
  BY <1>1 DEF JobRow
<1>3. jobs[j].cancel = FALSE
  BY <1>1 DEF JobRow
<1> HIDE DEF row
<1>4. jobs' = [jobs EXCEPT ![j] = row] /\ UNCHANGED renders
  BY DEF Requeue, row
<1>5. jobs'[j] = row /\ Others(j)
  BY <1>4, <1>a DEF Others
<1> QED BY <1>2, <1>3, <1>4, <1>5, <1>a, RequeueType DEF Turns, Active

\* A claim moves a queued job on.
LEMMA ClaimTurns ==
  ASSUME ChainInv, NEW w \in Workers, Claim(w)
  PROVE  (\E j \in JobIds : Turns(j)) /\ jobs' \in [JobIds -> JobRow] /\ workers' \in [Workers -> WorkerRow]
<1>a. jobs \in [JobIds -> JobRow] /\ workers \in [Workers -> WorkerRow]
  BY DEF ChainInv, TypeOK
<1>1. PICK j \in JobIds :
       /\ jobs[j].status = "queued"
       /\ jobs' = [jobs EXCEPT ![j] = [jobs[j] EXCEPT !.status = "running",
                                         !.attempts = jobs[j].attempts + 1]]
       /\ workers' = [workers EXCEPT ![w] = [stage |-> "claimed", job |-> j,
                        attempt |-> jobs[j].attempts + 1, max |-> jobs[j].max, outcome |-> "none",
                        seen |-> FALSE]]
  BY DEF Claim
<1>2. jobs[j] \in JobRow
  BY <1>a
<1>3. jobs[j].attempts \in Nat /\ jobs[j].attempts + 1 \in Nat /\ jobs[j].max \in Nat
  BY <1>2 DEF JobRow
<1> DEFINE row == [jobs[j] EXCEPT !.status = "running", !.attempts = jobs[j].attempts + 1]
<1>4. /\ row.status = "running" /\ row.render = jobs[j].render /\ row.retried = jobs[j].retried
      /\ row.attempts = jobs[j].attempts + 1 /\ row.cancel = jobs[j].cancel /\ row \in JobRow
  BY <1>2, <1>3 DEF JobRow, Status, Active
<1>5. [stage |-> "claimed", job |-> j, attempt |-> jobs[j].attempts + 1, max |-> jobs[j].max,
       outcome |-> "none", seen |-> FALSE] \in WorkerRow
  BY <1>3 DEF WorkerRow, Outcomes
<1> HIDE DEF row
<1>6. jobs' = [jobs EXCEPT ![j] = row]
  BY <1>1 DEF row
<1>7. jobs'[j] = row /\ Others(j)
  BY <1>6, <1>a DEF Others
<1>8. Turns(j)
  BY <1>1, <1>4, <1>7 DEF Turns, Active, Claim
<1> QED BY <1>1, <1>4, <1>5, <1>6, <1>8, <1>a

\* A cancel ends a waiting job with its render or flags a running one.
LEMMA CancelShape ==
  ASSUME ChainInv, NEW j \in JobIds, RequestCancel(j)
  PROVE  Shape /\ jobs' \in [JobIds -> JobRow] /\ renders' \in [Renders -> RenderRow]
<1>a. jobs \in [JobIds -> JobRow] /\ TypeOK /\ renders \in [Renders -> RenderRow]
  BY DEF ChainInv, TypeOK, RenderRow
<1>1. CASE jobs[j].status = "queued" /\ End(j, "cancelled")
  BY <1>1, <1>a, EndEnds DEF Shape, Ended, Active
<1>2. CASE /\ jobs[j].status = "running" /\ ~jobs[j].cancel
           /\ jobs' = [jobs EXCEPT ![j].cancel = TRUE] /\ UNCHANGED renders
  <2>1. jobs[j] \in JobRow
    BY <1>a
  <2> DEFINE row == [jobs[j] EXCEPT !.cancel = TRUE]
  <2>2. /\ row.status = jobs[j].status /\ row.render = jobs[j].render /\ row.retried = jobs[j].retried
        /\ row.attempts = jobs[j].attempts /\ row.cancel = TRUE /\ row \in JobRow
    BY <2>1 DEF JobRow
  <2> HIDE DEF row
  <2>3. jobs' = [jobs EXCEPT ![j] = row]
    BY <1>2 DEF row
  <2>4. jobs'[j] = row /\ Others(j)
    BY <2>3, <1>a DEF Others
  <2>5. Turns(j)
    BY <1>2, <2>2, <2>4 DEF Turns, Active
  <2> QED BY <2>2, <2>3, <2>5, <1>2, <1>a DEF Shape
<1> QED BY <1>1, <1>2 DEF RequestCancel

\* Recover and Persist end a job or put it back into the queue.
LEMMA PersistShape ==
  ASSUME ChainInv, NEW w \in Workers, Persist(w)
  PROVE  Shape /\ jobs' \in [JobIds -> JobRow] /\ renders' \in [Renders -> RenderRow]
<1>a. jobs \in [JobIds -> JobRow] /\ TypeOK /\ renders \in [Renders -> RenderRow]
  BY DEF ChainInv, TypeOK, RenderRow
<1>b. Job(w) \in JobIds /\ workers'[w] = Idle
  BY <1>a, TargetShown DEF Persist, ToIdle, TypeOK
<1>1. CASE UNCHANGED <<jobs, renders>>
  BY <1>1, <1>a DEF Shape, Still
<1>2. ASSUME NEW s \in Ended, Holds(w), End(Job(w), s), s = "succeeded" => workers[w].outcome = "succeeded"
      PROVE  Shape /\ jobs' \in [JobIds -> JobRow] /\ renders' \in [Renders -> RenderRow]
  <2>1. jobs[Job(w)].status \in Active
    BY <1>2 DEF Holds, Job, Active
  <2>2. Ends(Job(w), s) /\ jobs' \in [JobIds -> JobRow] /\ renders' \in [Renders -> RenderRow]
    BY <1>2, <1>a, <1>b, <2>1, EndEnds
  <2> QED BY <1>b, <2>2 DEF Shape
<1>3. ASSUME NEW n \in {0, 1}, Holds(w), ~jobs[Job(w)].cancel, Requeue(Job(w), n)
      PROVE  Shape /\ jobs' \in [JobIds -> JobRow] /\ renders' \in [Renders -> RenderRow]
  <2>1. jobs[Job(w)].status = "running"
    BY <1>3 DEF Holds, Job
  <2>2. UNCHANGED renders
    BY <1>3 DEF Requeue
  <2> QED BY <1>3, <1>a, <1>b, <2>1, <2>2, RequeueTurns DEF Shape
<1>4. CASE Holds(w) /\ workers[w].outcome \in Ended /\ End(Job(w), workers[w].outcome)
  BY <1>2, <1>4
<1>5. CASE Holds(w) /\ workers[w].outcome = "succeeded" /\ End(Job(w), "failed")
  BY <1>2, <1>5 DEF Ended
<1>6. CASE /\ Holds(w) /\ workers[w].outcome \in {"retry", "release"}
           /\ IF jobs[Job(w)].cancel THEN End(Job(w), "cancelled")
              ELSE Requeue(Job(w), IF workers[w].outcome = "release" THEN 1 ELSE 0)
  BY <1>2, <1>3, <1>6 DEF Ended
<1> QED BY <1>1, <1>4, <1>5, <1>6 DEF Persist

\* A recovery ends or requeues the job of a dead attempt, and settles its render.
LEMMA RecoverShape ==
  ASSUME ChainInv, NEW j \in JobIds, Recover(j)
  PROVE  Shape /\ jobs' \in [JobIds -> JobRow] /\ renders' \in [Renders -> RenderRow]
<1>a. jobs \in [JobIds -> JobRow] /\ TypeOK /\ renders \in [Renders -> RenderRow]
  BY DEF ChainInv, TypeOK, RenderRow
<1>b. jobs[j].status = "running" /\ jobs[j].status \in Active
  BY DEF Recover, Active
<1>1. CASE End(j, "cancelled")
  BY <1>1, <1>a, <1>b, EndEnds DEF Shape, Ended
<1>2. CASE ~jobs[j].cancel /\ End(j, "failed")
  BY <1>2, <1>a, <1>b, EndEnds DEF Shape, Ended
<1>3. CASE ~jobs[j].cancel /\ Requeue(j, 0)
  <2>1. UNCHANGED renders
    BY <1>3 DEF Requeue
  <2> QED BY <1>3, <1>a, <1>b, <2>1, RequeueTurns DEF Shape
<1> QED BY <1>1, <1>2, <1>3 DEF Recover

-----------------------------------------------------------------------------
(* What handlers and requests do to the tables *)

\* A row that is painted keeps its version; StartRender also takes it over.
LEMMA PaintFields ==
  ASSUME renders \in [Renders -> RenderRow], NEW w \in Workers, Target(w) \in Renders,
         NEW s \in Status
  PROVE  /\ renders' = [renders EXCEPT ![Target(w)].status = s] =>
              /\ OtherRows(Target(w)) /\ renders'[Target(w)].status = s
              /\ renders'[Target(w)].version = renders[Target(w)].version
              /\ renders'[Target(w)].job = renders[Target(w)].job
         /\ renders' = [renders EXCEPT ![Target(w)].status = s, ![Target(w)].job = Job(w)] =>
              /\ OtherRows(Target(w)) /\ renders'[Target(w)].status = s
              /\ renders'[Target(w)].version = renders[Target(w)].version
              /\ renders'[Target(w)].job = Job(w)
<1> DEFINE old == renders[Target(w)]
<1>1. old \in RenderRow
  OBVIOUS
<1>2. ASSUME renders' = [renders EXCEPT ![Target(w)].status = s]
      PROVE  /\ OtherRows(Target(w)) /\ renders'[Target(w)].status = s
             /\ renders'[Target(w)].version = old.version
             /\ renders'[Target(w)].job = old.job
  <2> DEFINE row == [old EXCEPT !.status = s]
  <2>1. row.status = s /\ row.version = old.version /\ row.job = old.job
    BY <1>1 DEF RenderRow
  <2>2. renders'[Target(w)] = row /\ OtherRows(Target(w))
    BY <1>2 DEF OtherRows
  <2> QED BY <2>1, <2>2
<1>3. ASSUME renders' = [renders EXCEPT ![Target(w)].status = s, ![Target(w)].job = Job(w)]
      PROVE  /\ OtherRows(Target(w)) /\ renders'[Target(w)].status = s
             /\ renders'[Target(w)].version = old.version
             /\ renders'[Target(w)].job = Job(w)
  <2> DEFINE row == [old EXCEPT !.status = s, !.job = Job(w)]
  <2>1. row.status = s /\ row.version = old.version /\ row.job = Job(w)
    BY <1>1 DEF RenderRow
  <2>2. renders'[Target(w)] = row /\ OtherRows(Target(w))
    BY <1>3 DEF OtherRows
  <2> QED BY <2>1, <2>2
<1> QED BY <1>2, <1>3

\* _start_render changes at most the row of the render it serves.
LEMMA StartShape ==
  ASSUME ChainInv, NEW w \in Workers, StartRender(w)
  PROVE  Shape /\ renders' \in [Renders -> RenderRow] /\ UNCHANGED jobs
<1>a. renders \in [Renders -> RenderRow]
  BY DEF ChainInv, TypeOK, RenderRow
<1>b. /\ workers[w].stage = "opened" /\ UNCHANGED jobs
      /\ Job(w) \in JobIds /\ Target(w) \in Renders
  BY TargetShown DEF StartRender
<1>1. CASE UNCHANGED renders
  BY <1>1, <1>a, <1>b DEF Shape, Still
<1>2. CASE /\ renders[Target(w)].status \in {"queued", "running", "failed"}
           /\ renders' = TakenOver(w)
  <2>1. renders' = [renders EXCEPT ![Target(w)].status = "running", ![Target(w)].job = Job(w)]
    BY <1>2 DEF TakenOver
  <2>2. Paints(w)
    BY <1>2, <1>a, <1>b, <2>1, PaintFields DEF Paints, Status, Active
  <2>3. renders' \in [Renders -> RenderRow]
    BY <1>a, <1>b, <2>1, PaintType DEF Status, Active
  <2> QED BY <1>b, <2>2, <2>3 DEF Shape
<1> QED BY <1>1, <1>2 DEF StartRender

\* The end of an attempt: the row is left alone, succeeds, or is marked.
LEMMA EndsShape ==
  ASSUME ChainInv, NEW w \in Workers, RenderEnds(w)
  PROVE  Shape /\ renders' \in [Renders -> RenderRow] /\ UNCHANGED jobs
<1>a. renders \in [Renders -> RenderRow]
  BY DEF ChainInv, TypeOK, RenderRow
<1>b. /\ workers[w].stage = "rendering" /\ UNCHANGED jobs
  BY DEF RenderEnds, FinishRender, RenderFails, RenderRaises, RenderCancelled, RenderStops
<1>c. Job(w) \in JobIds /\ Target(w) \in Renders
  BY <1>b, TargetShown
<1>1. CASE UNCHANGED renders
  BY <1>1, <1>a, <1>b DEF Shape, Still
<1>2. ASSUME NEW s \in Ended, renders[Target(w)].status \in Active,
             renders' = [renders EXCEPT ![Target(w)].status = s],
             s = "cancelled" => workers[w].seen
      PROVE  Shape /\ renders' \in [Renders -> RenderRow]
  <2>1. Paints(w)
    BY <1>2, <1>a, <1>b, <1>c, PaintFields DEF Paints, Status
  <2>2. renders' \in [Renders -> RenderRow]
    BY <1>2, <1>a, <1>c, PaintType DEF Status
  <2> QED BY <2>1, <2>2 DEF Shape
<1>3. ASSUME NEW s \in Ended, Mark(w, s), s = "cancelled" => workers[w].seen
      PROVE  Shape /\ renders' \in [Renders -> RenderRow]
  BY <1>1, <1>2, <1>3 DEF Mark
<1>4. CASE FinishRender(w)
  BY <1>1, <1>2, <1>4, <1>b DEF FinishRender, Matches, Delivered, Active, Ended
<1>5. CASE RenderFails(w)
  BY <1>3, <1>5, <1>b DEF RenderFails, Ended
<1>6. CASE RenderRaises(w)
  BY <1>1, <1>3, <1>6, <1>b DEF RenderRaises, Ended
<1>7. CASE RenderCancelled(w)
  BY <1>3, <1>7, <1>b DEF RenderCancelled, Ended
<1>8. CASE RenderStops(w)
  BY <1>1, <1>8, <1>b DEF RenderStops
<1> QED BY <1>4, <1>5, <1>6, <1>7, <1>8 DEF RenderEnds

\* A request that ends forgets everything.
LEMMA DropDrops ==
  ASSUME ChainInv, NEW q \in Requests, Drop(q)
  PROVE  /\ requests'[q] = NoRequest /\ requests' \in [Requests -> RequestRow]
         /\ \A p \in Requests \ {q} : requests'[p] = requests[p]
<1>1. requests \in [Requests -> RequestRow]
  BY DEF ChainInv, TypeOK
<1> QED BY <1>1, RowTypes DEF Drop

\* The two inserts of a request.
LEMMA InsertShape ==
  ASSUME ChainInv, NEW q \in Requests, StartInsert(q)
  PROVE  Shape /\ jobs' \in [JobIds -> JobRow] /\ renders' \in [Renders -> RenderRow]
<1>a. /\ jobs \in [JobIds -> JobRow] /\ renders \in [Renders -> RenderRow]
      /\ requests[q] \in RequestRow /\ site \in Sites
  BY DEF ChainInv, TypeOK, RenderRow
<1>1. PICK r \in Renders, n \in JobIds :
        /\ IsNextId(renders, r) /\ IsNextId(jobs, n)
        /\ jobs' = [jobs EXCEPT ![n] = NewJob(r)]
        /\ renders' = [renders EXCEPT ![r] = QueuedRender(requests[q].version, n)]
  BY DEF StartInsert
<1>2. Inserts(q, n, r)
  BY <1>1, <1>a, DropDrops DEF Inserts, StartInsert, Others, OtherRows
<1>3. NewJob(r) \in JobRow /\ QueuedRender(requests[q].version, n) \in RenderRow
  BY <1>a, RowTypes, NewJobType DEF RequestRow
<1> QED BY <1>1, <1>2, <1>3, <1>a DEF Shape

\* A retry copies a job that ended and puts its render back in the queue.
LEMMA RetryShape ==
  ASSUME ChainInv, NEW q \in Requests, RetryInsert(q)
  PROVE  Shape /\ jobs' \in [JobIds -> JobRow] /\ renders' \in [Renders -> RenderRow]
<1> DEFINE old == requests[q].job
           r == jobs[old].render
<1>a. jobs \in [JobIds -> JobRow] /\ renders \in [Renders -> RenderRow] /\ site \in Sites
  BY DEF ChainInv, TypeOK, RenderRow
<1>b. /\ old \in JobIds /\ r \in Renders /\ Exists(old)
      /\ requests[q].stage = "retry_admitted"
  BY TargetShown DEF RetryInsert, RetryStages
<1>c. jobs[old] \in JobRow
  BY <1>a, <1>b
<1>1. CASE UNCHANGED <<jobs, renders>>
  BY <1>1, <1>a DEF Shape, Still
<1>2. CASE /\ jobs[old].status \in Retryable /\ ~jobs[old].retried
           /\ \E n \in JobIds :
                /\ IsNextId(jobs, n)
                /\ jobs' = [jobs EXCEPT ![old].retried = TRUE, ![n] = NewJob(jobs[old].render)]
                /\ renders' = [renders EXCEPT ![jobs[old].render] = QueuedRender(Version(old), n)]
  <2>1. PICK n \in JobIds :
          /\ IsNextId(jobs, n)
          /\ jobs' = [jobs EXCEPT ![old].retried = TRUE, ![n] = NewJob(r)]
          /\ renders' = [renders EXCEPT ![r] = QueuedRender(Version(old), n)]
    BY <1>2
  <2>2. n # old
    BY <1>b, <2>1 DEF IsNextId, Exists
  <2> DEFINE row == [jobs[old] EXCEPT !.retried = TRUE]
  <2>3. /\ row.status = jobs[old].status /\ row.render = r /\ row.retried = TRUE
        /\ row.cancel = jobs[old].cancel /\ row \in JobRow
    BY <1>c DEF JobRow
  <2>4. NewJob(r) \in JobRow /\ QueuedRender(Version(old), n) \in RenderRow
    BY <1>a, <1>b, RowTypes, NewJobType DEF Version, RenderRow
  <2> HIDE DEF row
  <2>5. jobs' = [jobs EXCEPT ![old] = row, ![n] = NewJob(r)]
    BY <2>1, <2>2, <1>a, <1>b DEF row
  <2>6. /\ jobs'[old] = row /\ jobs'[n] = NewJob(r)
        /\ \A k \in JobIds \ {n, old} : jobs'[k] = jobs[k]
    BY <2>2, <2>5, <1>a, <1>b
  <2>7. OtherRows(r) /\ renders'[r] = QueuedRender(Version(old), n)
    BY <2>1, <1>a, <1>b DEF OtherRows
  <2>8. Copies(q, n, old)
    BY <1>2, <1>b, <2>1, <2>2, <2>3, <2>6, <2>7, DropDrops DEF Copies, RetryInsert
  <2>9. jobs' \in [JobIds -> JobRow] /\ renders' \in [Renders -> RenderRow]
    BY <1>a, <1>b, <2>1, <2>3, <2>4, <2>5
  <2> QED BY <1>b, <2>8, <2>9 DEF Shape
<1> QED BY <1>1, <1>2 DEF RetryInsert

\* Every step changes the tables in one of the six ways.
LEMMA StepHasShape ==
  ASSUME ChainInv, [Next]_vars
  PROVE  Shape /\ jobs' \in [JobIds -> JobRow] /\ renders' \in [Renders -> RenderRow]
<1>a. jobs \in [JobIds -> JobRow] /\ renders \in [Renders -> RenderRow]
  BY DEF ChainInv, TypeOK, RenderRow
<1>1. CASE UNCHANGED <<jobs, renders>>
  BY <1>1, <1>a DEF Shape, Still
<1>2. ASSUME NEW w \in Workers, Worker(w)
      PROVE  Shape /\ jobs' \in [JobIds -> JobRow] /\ renders' \in [Renders -> RenderRow]
  <2>1. CASE Claim(w)
    <3>1. UNCHANGED renders
      BY <2>1 DEF Claim
    <3> QED BY <2>1, <3>1, <1>a, ClaimTurns DEF Shape
  <2>2. CASE Open(w) \/ Heartbeat(w) \/ Crash(w)
    BY <1>1, <2>2 DEF Open, Heartbeat, Crash
  <2> QED BY <1>2, <1>a, <2>1, <2>2, StartShape, EndsShape, PersistShape DEF Worker
<1>3. ASSUME NEW q \in Requests, Writes(q) \/ Reads(q)
      PROVE  Shape /\ jobs' \in [JobIds -> JobRow] /\ renders' \in [Renders -> RenderRow]
  <2>1. StartInsert(q) \/ RetryInsert(q) \/ UNCHANGED <<jobs, renders>>
    BY <1>3 DEF Writes, Reads, StartCheck, StartAdmit, Admit, Refused, StartLock, RetryLoad,
       RetryCheck, RetryAdmit
  <2> QED BY <1>1, <2>1, InsertShape, RetryShape
<1> QED BY <1>1, <1>2, <1>3, CancelShape, RecoverShape DEF Next, Step, vars

-----------------------------------------------------------------------------
(* What a step does to a thread and to a request *)

\* The thread takes a queued job.
Takes(w) ==
  /\ workers[w].stage = "idle" /\ workers'[w].stage # "idle"
  /\ workers'[w].job \in JobIds
  /\ jobs[workers'[w].job].status = "queued"
  /\ jobs'[workers'[w].job].status = "running"
  /\ jobs'[workers'[w].job].attempts = jobs[workers'[w].job].attempts + 1
  /\ workers'[w].attempt = jobs[workers'[w].job].attempts + 1
  /\ workers'[w].outcome = "none" /\ ~workers'[w].seen

\* It goes on with its attempt; it succeeds only with a row that has, and sees
\* a cancellation only while it holds its lease.
Proceeds(w) ==
  /\ workers[w].stage # "idle" /\ workers'[w].stage # "idle"
  /\ workers'[w].job = workers[w].job /\ workers'[w].attempt = workers[w].attempt
  /\ UNCHANGED jobs
  /\ workers'[w].outcome = "succeeded" =>
       workers[w].outcome = "succeeded" \/ renders'[Target(w)].status = "succeeded"
  /\ workers'[w].seen => workers[w].seen \/ (Holds(w) /\ jobs[Job(w)].cancel)

Rests(w) == workers'[w] = Idle
Moves(w) == workers'[w] = workers[w] \/ Takes(w) \/ Proceeds(w) \/ Rests(w)

\* The moves of thread w that end no attempt keep its row's shape.
LEMMA ToOutcomeProceeds ==
  ASSUME workers \in [Workers -> WorkerRow], NEW w \in Workers, NEW o \in Outcomes,
         ToOutcome(w, o), workers[w].stage # "idle", UNCHANGED jobs,
         o = "succeeded" => renders'[Target(w)].status = "succeeded"
  PROVE  Proceeds(w) /\ workers' \in [Workers -> WorkerRow]
<1>1. workers[w] \in WorkerRow
  OBVIOUS
<1> DEFINE row == [workers[w] EXCEPT !.stage = "ended", !.outcome = o]
<1>2. /\ row.stage = "ended" /\ row.job = workers[w].job /\ row.attempt = workers[w].attempt
      /\ row.outcome = o /\ row.seen = workers[w].seen /\ row \in WorkerRow
  BY <1>1 DEF WorkerRow
<1> HIDE DEF row
<1>3. workers' = [workers EXCEPT ![w] = row]
  BY DEF ToOutcome, row
<1>4. workers'[w] = row
  BY <1>3
<1> QED BY <1>2, <1>3, <1>4 DEF Proceeds

\* Moving to the next stage keeps the job and render of the worker.
LEMMA StageProceeds ==
  ASSUME workers \in [Workers -> WorkerRow], NEW w \in Workers, NEW s \in {"opened", "rendering"},
         workers' = [workers EXCEPT ![w].stage = s], workers[w].stage # "idle", UNCHANGED jobs
  PROVE  Proceeds(w) /\ workers' \in [Workers -> WorkerRow]
<1>1. workers[w] \in WorkerRow
  OBVIOUS
<1> DEFINE row == [workers[w] EXCEPT !.stage = s]
<1>2. /\ row.stage = s /\ row.job = workers[w].job /\ row.attempt = workers[w].attempt
      /\ row.outcome = workers[w].outcome /\ row.seen = workers[w].seen /\ row \in WorkerRow
  BY <1>1 DEF WorkerRow
<1> HIDE DEF row
<1>3. workers' = [workers EXCEPT ![w] = row]
  BY DEF row
<1>4. workers'[w] = row
  BY <1>3
<1> QED BY <1>2, <1>3, <1>4 DEF Proceeds

\* A heartbeat tells the worker of a cancellation.
LEMMA HeartbeatProceeds ==
  ASSUME workers \in [Workers -> WorkerRow], NEW w \in Workers, Heartbeat(w)
  PROVE  Proceeds(w) /\ workers' \in [Workers -> WorkerRow]
<1>1. workers[w] \in WorkerRow
  OBVIOUS
<1> DEFINE row == [workers[w] EXCEPT !.seen = TRUE]
<1>2. /\ row.stage = workers[w].stage /\ row.job = workers[w].job /\ row.attempt = workers[w].attempt
      /\ row.outcome = workers[w].outcome /\ row \in WorkerRow
  BY <1>1 DEF WorkerRow
<1> HIDE DEF row
<1>3. workers' = [workers EXCEPT ![w] = row]
  BY DEF Heartbeat, row
<1>4. workers'[w] = row
  BY <1>3
<1> QED BY <1>2, <1>3, <1>4 DEF Proceeds, Heartbeat

\* A worker that becomes idle holds nothing.
LEMMA IdleRests ==
  ASSUME workers \in [Workers -> WorkerRow], NEW w \in Workers, ToIdle(w)
  PROVE  Rests(w) /\ workers' \in [Workers -> WorkerRow]
BY RowTypes DEF ToIdle, Rests

\* Every thread makes one of the four moves, and at most one does not stay.
LEMMA ThreadMoves ==
  ASSUME ChainInv, [Next]_vars
  PROVE  /\ workers' \in [Workers -> WorkerRow]
         /\ \A w \in Workers : Moves(w)
         /\ \A w, x \in Workers : workers'[w] # workers[w] /\ workers'[x] # workers[x] => w = x
<1>a. workers \in [Workers -> WorkerRow] /\ renders \in [Renders -> RenderRow]
  BY DEF ChainInv, TypeOK, RenderRow
<1> DEFINE Goal(w) == /\ workers' \in [Workers -> WorkerRow] /\ Moves(w)
                      /\ \A x \in Workers \ {w} : workers'[x] = workers[x]
<1>1. ASSUME NEW w \in Workers, Worker(w) PROVE Goal(w)
  <2>1. \A x \in Workers \ {w} : workers'[x] = workers[x]
    <3>1. ASSUME StartRender(w) \/ RenderEnds(w) PROVE \E o : ToOutcome(w, o) \/ workers' = [workers EXCEPT ![w].stage = "rendering"]
      BY <3>1 DEF StartRender, RenderEnds, FinishRender, RenderFails, RenderRaises, RenderCancelled, RenderStops, Release
    <3>2. ASSUME NEW o, ToOutcome(w, o) \/ workers' = [workers EXCEPT ![w].stage = "rendering"]
          PROVE  \A x \in Workers \ {w} : workers'[x] = workers[x]
      BY <3>2, <1>a DEF ToOutcome
    <3>3. ASSUME Claim(w) \/ Open(w) \/ Heartbeat(w) \/ Persist(w) \/ Crash(w)
          PROVE  \A x \in Workers \ {w} : workers'[x] = workers[x]
      BY <3>3, <1>a DEF Claim, Open, Heartbeat, Persist, Crash, ToIdle, ToOutcome
    <3> QED BY <1>1, <3>1, <3>2, <3>3 DEF Worker
  <2>2. CASE Claim(w)
    <3>1. PICK j \in JobIds :
            /\ jobs[j].status = "queued"
            /\ jobs' = [jobs EXCEPT ![j] = [jobs[j] EXCEPT !.status = "running",
                                              !.attempts = jobs[j].attempts + 1]]
            /\ workers' = [workers EXCEPT ![w] = [stage |-> "claimed", job |-> j,
                             attempt |-> jobs[j].attempts + 1, max |-> jobs[j].max, outcome |-> "none",
                             seen |-> FALSE]]
      BY <2>2 DEF Claim
    <3>2. jobs \in [JobIds -> JobRow] /\ jobs[j] \in JobRow
      BY DEF ChainInv, TypeOK
    <3>3. jobs'[j].status = "running" /\ jobs'[j].attempts = jobs[j].attempts + 1
      BY <3>1, <3>2 DEF JobRow
    <3>4. workers'[w] = [stage |-> "claimed", job |-> j, attempt |-> jobs[j].attempts + 1,
                         max |-> jobs[j].max, outcome |-> "none", seen |-> FALSE]
      BY <3>1, <1>a
    <3>5. Takes(w)
      BY <2>2, <3>1, <3>3, <3>4 DEF Takes, Claim
    <3> QED BY <2>1, <2>2, <3>5, ClaimTurns DEF Moves
  <2>3. CASE Open(w)
    BY <2>1, <2>3, <1>a, StageProceeds, ToOutcomeProceeds, IdleRests DEF Open, Moves, Outcomes
  <2>4. CASE StartRender(w)
    BY <2>1, <2>4, <1>a, StageProceeds, ToOutcomeProceeds DEF StartRender, Moves, Outcomes
  <2>5. CASE FinishRender(w)
    <3>1. Target(w) \in Renders
      BY <2>5, TargetShown DEF FinishRender
    <3>2. workers[w].stage # "idle" /\ UNCHANGED jobs
      BY <2>5 DEF FinishRender
    <3>3. CASE renders' = Delivered(w) /\ ToOutcome(w, "succeeded")
      <4>1. renders'[Target(w)].status = "succeeded"
        BY <3>1, <3>3, <1>a, PaintFields DEF Delivered, Status, Ended
      <4> QED BY <2>1, <3>2, <3>3, <4>1, <1>a, ToOutcomeProceeds DEF Moves, Outcomes
    <3>4. CASE ToOutcome(w, "cancelled") \/ ToOutcome(w, "release")
      BY <2>1, <3>2, <3>4, <1>a, ToOutcomeProceeds DEF Moves, Outcomes
    <3> QED BY <2>5, <3>3, <3>4 DEF FinishRender, Release
  <2>6. CASE RenderFails(w) \/ RenderRaises(w) \/ RenderCancelled(w) \/ RenderStops(w)
    <3>1. PICK o \in {"failed", "retry", "cancelled", "lost", "release"} : ToOutcome(w, o)
      BY <2>6 DEF RenderFails, RenderRaises, RenderCancelled, RenderStops, Release
    <3>2. workers[w].stage # "idle" /\ UNCHANGED jobs
      BY <2>6 DEF RenderFails, RenderRaises, RenderCancelled, RenderStops
    <3> QED BY <2>1, <3>1, <3>2, <1>a, ToOutcomeProceeds DEF Moves, Outcomes
  <2>7. CASE Persist(w) \/ Crash(w)
    BY <2>1, <2>7, <1>a, IdleRests DEF Persist, Crash, Moves
  <2>8. CASE Heartbeat(w)
    BY <2>1, <2>8, <1>a, HeartbeatProceeds DEF Moves
  <2> QED BY <1>1, <2>2, <2>3, <2>4, <2>5, <2>6, <2>7, <2>8 DEF Worker, RenderEnds
<1>2. UNCHANGED workers \/ \E w \in Workers : Worker(w)
  BY DEF Next, Step, vars, Writes, Reads, StartCheck, StartAdmit, Admit, StartInsert, Refused, StartLock,
     RetryLoad, RetryCheck, RetryAdmit, RetryInsert, RequestCancel, Recover
<1>3. CASE UNCHANGED workers
  BY <1>3, <1>a DEF Moves
<1>4. ASSUME NEW w \in Workers, Worker(w)
      PROVE  /\ workers' \in [Workers -> WorkerRow]
             /\ \A x \in Workers : Moves(x)
             /\ \A x, y \in Workers : workers'[x] # workers[x] /\ workers'[y] # workers[y] => x = y
  BY <1>1, <1>4 DEF Moves
<1> QED BY <1>2, <1>3, <1>4

\* A request locks the version, after which it starts a render ...
Locks(q) ==
  /\ requests[q].stage = "idle" /\ requests'[q].stage = "start_locked"
  /\ HasVersion(requests'[q].version) = {}
  /\ SingleWriter => \A p \in Requests : requests[p].stage \notin StartStages
  /\ Still

\* ... or loads the job to retry.
Loads(q) ==
  /\ Retries
  /\ requests[q].stage = "idle" /\ requests'[q].stage = "retry_loaded"
  /\ requests'[q].job \in JobIds /\ Exists(requests'[q].job)
  /\ Still

Advances(q) ==
  /\ requests'[q].version = requests[q].version /\ requests'[q].job = requests[q].job
  /\ \/ /\ requests[q].stage = "start_locked" /\ requests'[q].stage = "start_checked"
        /\ ActiveRenders(requests[q].version) = {}
     \/ requests[q].stage = "retry_loaded" /\ requests'[q].stage = "retry_checked"
     \/ /\ \/ requests[q].stage = "start_checked" /\ requests'[q].stage = "start_admitted"
           \/ requests[q].stage = "retry_checked" /\ requests'[q].stage = "retry_admitted"
        /\ SingleWriter \/ HasAdmission = {}
        /\ Cardinality(ActiveJobs) < site.limit
  /\ Still

Drops(q) == requests'[q] = NoRequest
Serves(q) == requests'[q] = requests[q] \/ Locks(q) \/ Loads(q) \/ Advances(q) \/ Drops(q)

\* A request that goes on to another statement keeps what it is about.
LEMMA ToAdvances ==
  ASSUME ChainInv, NEW q \in Requests, NEW s \in StartStages \cup RetryStages, To(q, s)
  PROVE  /\ requests'[q].stage = s /\ requests'[q].version = requests[q].version
         /\ requests'[q].job = requests[q].job /\ requests' \in [Requests -> RequestRow]
         /\ \A p \in Requests \ {q} : requests'[p] = requests[p]
<1>1. requests \in [Requests -> RequestRow] /\ requests[q] \in RequestRow
  BY DEF ChainInv, TypeOK
<1> DEFINE row == [requests[q] EXCEPT !.stage = s]
<1>2. /\ row.stage = s /\ row.version = requests[q].version /\ row.job = requests[q].job
      /\ row \in RequestRow
  BY <1>1 DEF RequestRow
<1> HIDE DEF row
<1>3. requests' = [requests EXCEPT ![q] = row]
  BY DEF To, row
<1> QED BY <1>1, <1>2, <1>3

\* A request begins.
LEMMA Begins ==
  ASSUME ChainInv, NEW q \in Requests, NEW row \in RequestRow, requests' = [requests EXCEPT ![q] = row]
  PROVE  /\ requests'[q] = row /\ requests' \in [Requests -> RequestRow]
         /\ \A p \in Requests \ {q} : requests'[p] = requests[p]
<1>1. requests \in [Requests -> RequestRow]
  BY DEF ChainInv, TypeOK
<1> QED BY <1>1

\* At most one request makes a move.
LEMMA RequestMoves ==
  ASSUME ChainInv, [Next]_vars
  PROVE  /\ requests' \in [Requests -> RequestRow]
         /\ \A q \in Requests : Serves(q)
         /\ \A q, p \in Requests : requests'[q] # requests[q] /\ requests'[p] # requests[p] => q = p
<1>a. requests \in [Requests -> RequestRow] /\ renders \in [Renders -> RenderRow]
  BY DEF ChainInv, TypeOK, RenderRow
<1> DEFINE Goal(q) == /\ requests' \in [Requests -> RequestRow] /\ Serves(q)
                      /\ \A p \in Requests \ {q} : requests'[p] = requests[p]
<1>1. ASSUME NEW q \in Requests, Drop(q) PROVE Goal(q)
  BY <1>1, DropDrops DEF Serves, Drops
<1>2. ASSUME NEW q \in Requests, NEW v \in Versions, StartLock(q, v), ~WriterIsBusy PROVE Goal(q)
  <2> DEFINE row == [stage |-> "start_locked", version |-> v, job |-> 0]
  <2>1. row \in RequestRow /\ requests' = [requests EXCEPT ![q] = row]
    BY <1>2 DEF StartLock, RequestRow, StartStages
  <2>2. requests'[q] = row
    BY <2>1, Begins
  <2>3. Locks(q)
    BY <1>2, <2>2 DEF Locks, StartLock, WriterIsBusy, Still
  <2> QED BY <2>1, <2>3, Begins DEF Serves
<1>3. ASSUME NEW q \in Requests, NEW j \in JobIds, RetryLoad(q, j) PROVE Goal(q)
  <2> DEFINE row == [stage |-> "retry_loaded", version |-> Version(j), job |-> j]
  <2>1. Exists(j) /\ jobs[j].render \in Renders
    BY <1>3 DEF RetryLoad, Retryable, Exists, ChainInv, RowsInv, JobHasRender
  <2>2. renders[jobs[j].render] \in RenderRow
    BY <2>1, <1>a
  <2>3. Version(j) \in Versions \cup {"none"}
    BY <2>2 DEF Version, RenderRow
  <2>4. row \in RequestRow /\ requests' = [requests EXCEPT ![q] = row]
    BY <1>3, <2>3 DEF RetryLoad, RequestRow, RetryStages
  <2>5. requests'[q] = row
    BY <2>4, Begins
  <2>6. Loads(q)
    BY <1>3, <2>1, <2>5 DEF Loads, RetryLoad, Still
  <2> QED BY <2>4, <2>6, Begins DEF Serves
<1>4. ASSUME NEW q \in Requests, StartCheck(q) PROVE Goal(q)
  <2>1. CASE ActiveRenders(requests[q].version) = {} /\ To(q, "start_checked")
    BY <1>4, <2>1, ToAdvances DEF StartCheck, StartStages, Advances, Serves, Still
  <2> QED BY <1>1, <1>4, <2>1 DEF StartCheck
<1>5. ASSUME NEW q \in Requests, RetryCheck(q) PROVE Goal(q)
  <2>1. CASE To(q, "retry_checked")
    BY <1>5, <2>1, ToAdvances DEF RetryCheck, RetryStages, Advances, Serves, Still
  <2> QED BY <1>1, <1>5, <2>1 DEF RetryCheck
<1>6. ASSUME NEW q \in Requests, StartAdmit(q) PROVE Goal(q)
  <2>1. CASE To(q, "start_admitted") /\ Cardinality(ActiveJobs) < site.limit
    BY <1>6, <2>1, ToAdvances DEF StartAdmit, Admit, StartStages, Advances, Serves, Still
  <2> QED BY <1>1, <1>6, <2>1 DEF StartAdmit, Admit
<1>7. ASSUME NEW q \in Requests, RetryAdmit(q) PROVE Goal(q)
  <2>1. CASE To(q, "retry_admitted") /\ Cardinality(ActiveJobs) < site.limit
    BY <1>7, <2>1, ToAdvances DEF RetryAdmit, Admit, RetryStages, Advances, Serves, Still
  <2> QED BY <1>1, <1>7, <2>1 DEF RetryAdmit, Admit
<1>8. ASSUME NEW q \in Requests, Writes(q) \/ (Reads(q) /\ ~WriterIsBusy) PROVE Goal(q)
  <2>1. ASSUME StartInsert(q) \/ Refused(q) \/ RetryInsert(q) PROVE Drop(q)
    BY <2>1 DEF StartInsert, Refused, RetryInsert
  <2> QED BY <1>1, <1>2, <1>3, <1>4, <1>5, <1>6, <1>7, <1>8, <2>1 DEF Writes, Reads
<1>9. UNCHANGED requests \/ \E q \in Requests : Writes(q) \/ (Reads(q) /\ ~WriterIsBusy)
  <2>1. ASSUME NEW w \in Workers, Worker(w) PROVE UNCHANGED requests
    BY <2>1 DEF Worker, Claim, Open, Heartbeat, StartRender, RenderEnds, FinishRender, RenderFails, RenderRaises,
       RenderCancelled, RenderStops, Persist, Crash
  <2> QED BY <2>1 DEF Next, Step, vars, RequestCancel, Recover
<1>10. CASE UNCHANGED requests
  BY <1>10, <1>a DEF Serves
<1>11. ASSUME NEW q \in Requests, Goal(q)
       PROVE  /\ requests' \in [Requests -> RequestRow]
              /\ \A p \in Requests : Serves(p)
              /\ \A x, y \in Requests : requests'[x] # requests[x] /\ requests'[y] # requests[y] => x = y
  BY <1>11 DEF Serves
<1> QED BY <1>8, <1>9, <1>10, <1>11

-----------------------------------------------------------------------------
(* The chain of a row's jobs *)

\* What a job and a row begin with.
LEMMA NewRows ==
  /\ \A r : /\ NewJob(r).status = "queued" /\ NewJob(r).render = r /\ NewJob(r).retried = FALSE
            /\ NewJob(r).cancel = FALSE
  /\ \A v, j : /\ QueuedRender(v, j).status = "queued" /\ QueuedRender(v, j).job = j
               /\ QueuedRender(v, j).version = v
BY DEF NewJob, NobodyJob, QueuedRender

\* A step that leaves every job where it is and what it is, up to its status.
SameJobs ==
  \A j \in JobIds :
    /\ jobs'[j].render = jobs[j].render /\ jobs'[j].retried = jobs[j].retried
    /\ Exists(j)' = Exists(j)
    /\ \/ jobs'[j] = jobs[j]
       \/ jobs[j].status \in Active /\ (jobs'[j].cancel => jobs'[j].status = "running")
SameRows ==
  \A r \in Renders :
    /\ Shown(r)' = Shown(r)
    /\ renders'[r].version = renders[r].version
    /\ \/ renders'[r].job = renders[r].job
       \/ /\ renders'[r].job \in JobIds /\ Exists(renders'[r].job)
          /\ jobs[renders'[r].job].render = r

\* All steps but the inserts of a request are of this kind.
LEMMA QuietShapes ==
  ASSUME ChainInv,
         \/ Still
         \/ \E j \in JobIds : Turns(j) \/ \E s \in Ended : Ends(j, s)
         \/ \E w \in Workers : Paints(w)
  PROVE  SameJobs /\ SameRows
<1>a. CancelRuns /\ RetriedOver /\ AbsentFresh
  BY DEF ChainInv, RowsInv
<1>1. CASE Still
  BY <1>1 DEF Still, SameJobs, SameRows, Exists, Shown
<1>2. ASSUME NEW j \in JobIds, Turns(j) PROVE SameJobs /\ SameRows
  <2>1. SameRows
    BY <1>2 DEF Turns, SameRows, Shown
  <2>2. SameJobs
    BY <1>2, <1>a DEF Turns, SameJobs, Others, Exists, Active, CancelRuns
  <2> QED BY <2>1, <2>2
<1>3. ASSUME NEW j \in JobIds, NEW s \in Ended, Ends(j, s) PROVE SameJobs /\ SameRows
  <2>1. SameRows
    BY <1>3 DEF Ends, SameRows, Shown, Active, Ended
  <2>2. SameJobs
    BY <1>3 DEF Ends, SameJobs, Others, Exists, Active, Ended
  <2> QED BY <2>1, <2>2
<1>4. ASSUME NEW w \in Workers, Paints(w) PROVE SameJobs /\ SameRows
  <2>1. Job(w) \in JobIds /\ Exists(Job(w)) /\ jobs[Job(w)].render = Target(w) /\ Shown(Target(w))
    BY <1>4, TargetShown DEF Paints, Target
  <2>2. SameJobs
    BY <1>4 DEF Paints, SameJobs, Exists
  <2>3. SameRows
    BY <1>4, <2>1 DEF Paints, SameRows, OtherRows, Shown, Active, Ended
  <2> QED BY <2>2, <2>3
<1> QED BY <1>1, <1>2, <1>3, <1>4

\* A step that changes neither jobs nor renders keeps RowsInv.
LEMMA QuietRows ==
  ASSUME ChainInv, SameJobs, SameRows PROVE RowsInv'
<1>a. RowsInv
  BY DEF ChainInv
<1>1. IdsInOrder' /\ AbsentFresh' /\ LastJob' /\ NewestJob'
  BY <1>a DEF RowsInv, IdsInOrder, AbsentFresh, LastJob, NewestJob, SameJobs, Exists
<1>2. JobHasRender' /\ RenderHasJob'
  BY <1>a DEF RowsInv, JobHasRender, RenderHasJob, SameJobs, SameRows, Exists, Shown
<1>3. RetriedOver' /\ CancelRuns'
  BY <1>a DEF RowsInv, RetriedOver, CancelRuns, SameJobs, Active, Retryable
<1> QED BY <1>1, <1>2, <1>3 DEF RowsInv

\* The next id is not in use, and all that are in use are below it.
LEMMA NextIds ==
  ASSUME ChainInv
  PROVE  /\ \A n \in JobIds : IsNextId(jobs, n) =>
              ~Exists(n) /\ \A k \in JobIds : (k < n => Exists(k)) /\ (Exists(k) => k < n)
         /\ \A r \in Renders : IsNextId(renders, r) => ~Shown(r)
<1>1. DOMAIN jobs = JobIds /\ DOMAIN renders = Renders /\ IdsInOrder
  BY DEF ChainInv, TypeOK, RowsInv
<1>2. ASSUME NEW n \in JobIds, NEW k \in JobIds, IsNextId(jobs, n), Exists(k) PROVE k < n
  BY <1>1, <1>2, Ids DEF IsNextId, IdsInOrder, Exists
<1> QED BY <1>1, <1>2 DEF IsNextId, Exists, Shown

\* A new render with its first job keeps RowsInv.
LEMMA InsertRows ==
  ASSUME ChainInv, NEW q \in Requests, NEW n \in JobIds, NEW r \in Renders, Inserts(q, n, r)
  PROVE  RowsInv'
<1>a. RowsInv
  BY DEF ChainInv
<1>b. /\ ~Exists(n) /\ ~Shown(r)
      /\ \A k \in JobIds : (k < n => Exists(k)) /\ (Exists(k) => k < n)
  BY NextIds DEF Inserts
<1>c. /\ jobs'[n].status = "queued" /\ jobs'[n].render = r /\ jobs'[n].retried = FALSE
      /\ jobs'[n].cancel = FALSE /\ Others(n)
  BY NewRows DEF Inserts
<1>d. /\ renders'[r].status = "queued" /\ renders'[r].job = n /\ OtherRows(r)
  BY NewRows DEF Inserts
<1>1. \A k \in JobIds : k # n => jobs'[k] = jobs[k]
  BY <1>c DEF Others
<1>2. \A k \in JobIds : Exists(k) => k # n /\ jobs[k].render # r
  BY <1>a, <1>b DEF RowsInv, JobHasRender
<1>3. IdsInOrder'
  BY <1>b, <1>c, <1>1, Ids DEF IdsInOrder, Exists
<1>4. JobHasRender' /\ AbsentFresh'
  BY <1>a, <1>c, <1>d, <1>1 DEF RowsInv, JobHasRender, AbsentFresh, Exists, Shown, OtherRows
<1>5. RenderHasJob'
  BY <1>a, <1>c, <1>d, <1>1, <1>2 DEF RowsInv, RenderHasJob, Exists, Shown, OtherRows
<1>6. LastJob'
  BY <1>a, <1>c, <1>1, <1>2 DEF RowsInv, LastJob, Exists
<1>8. NewestJob'
  BY <1>a, <1>c, <1>1, <1>2, Ids DEF RowsInv, NewestJob, Exists
<1>7. RetriedOver' /\ CancelRuns'
  BY <1>a, <1>c, <1>1 DEF RowsInv, RetriedOver, CancelRuns
<1> QED BY <1>3, <1>4, <1>5, <1>6, <1>7, <1>8 DEF RowsInv

\* A retry with a copied job keeps RowsInv.
LEMMA CopyRows ==
  ASSUME ChainInv, NEW q \in Requests, NEW n \in JobIds, NEW old \in JobIds, Copies(q, n, old)
  PROVE  RowsInv'
<1> DEFINE r == jobs[old].render
<1>a. RowsInv
  BY DEF ChainInv
<1>b. /\ ~Exists(n) /\ Exists(old) /\ n # old /\ r \in Renders /\ Shown(r)
      /\ \A k \in JobIds : (k < n => Exists(k)) /\ (Exists(k) => k < n)
  BY <1>a, NextIds DEF Copies, RowsInv, JobHasRender, Exists, Retryable
<1>c. /\ jobs'[n].status = "queued" /\ jobs'[n].render = r /\ jobs'[n].retried = FALSE
      /\ jobs'[n].cancel = FALSE
      /\ jobs'[old].status = jobs[old].status /\ jobs'[old].render = r
      /\ jobs'[old].retried = TRUE /\ jobs'[old].cancel = jobs[old].cancel
      /\ jobs[old].status \in Retryable /\ ~jobs[old].retried
      /\ \A k \in JobIds : k # n /\ k # old => jobs'[k] = jobs[k]
  BY NewRows DEF Copies
<1>d. /\ renders'[r].status = "queued" /\ renders'[r].job = n /\ OtherRows(r)
  BY NewRows DEF Copies
<1> HIDE DEF r
<1>1. IdsInOrder'
  BY <1>b, <1>c, Ids DEF IdsInOrder, Exists
<1>2. JobHasRender' /\ AbsentFresh'
  <2>1. \A x \in Renders : Shown(x) => Shown(x)'
    BY <1>b, <1>d DEF Shown, OtherRows
  <2> QED BY <1>a, <1>b, <1>c, <2>1 DEF RowsInv, JobHasRender, AbsentFresh, Exists, r
<1>3. RenderHasJob'
  BY <1>a, <1>b, <1>c, <1>d DEF RowsInv, RenderHasJob, Exists, Shown, OtherRows, r
<1>4. LastJob'
  <2>1. ASSUME NEW k \in JobIds, Exists(k), jobs[k].render = r, ~jobs[k].retried PROVE k = old
    BY <1>a, <1>b, <1>c, <2>1 DEF RowsInv, LastJob, r
  <2>2. ASSUME NEW k \in JobIds, Exists(k)', jobs'[k].render = r, ~jobs'[k].retried PROVE k = n
    BY <1>b, <1>c, <2>1, <2>2 DEF Exists
  <2> QED BY <1>a, <1>b, <1>c, <2>2 DEF RowsInv, LastJob, Exists
<1>6. NewestJob'
  <2>1. ASSUME NEW j \in JobIds, NEW k \in JobIds, Exists(j)', Exists(k)', jobs'[j].render = jobs'[k].render,
               ~jobs'[j].retried
        PROVE  k <= j
    <3>1. CASE j = n
      BY <1>b, <1>c, <2>1, <3>1, Ids DEF Exists
    <3>2. CASE j # n /\ jobs[j].render = r
      <4>1. j # old /\ Exists(j) /\ ~jobs[j].retried
        BY <1>c, <2>1, <3>2 DEF Exists
      <4> QED BY <1>a, <1>b, <1>c, <3>2, <4>1 DEF RowsInv, LastJob, r
    <3>3. CASE j # n /\ jobs[j].render # r
      <4>1. j # old /\ k # n /\ Exists(j) /\ ~jobs[j].retried /\ Exists(k) /\ jobs[k].render = jobs[j].render
        BY <1>c, <2>1, <3>3 DEF Exists, r
      <4> QED BY <1>a, <4>1 DEF RowsInv, NewestJob
    <3> QED BY <3>1, <3>2, <3>3
  <2> QED BY <2>1 DEF NewestJob, Exists
<1>5. RetriedOver' /\ CancelRuns'
  BY <1>a, <1>b, <1>c DEF RowsInv, RetriedOver, CancelRuns
<1> QED BY <1>1, <1>2, <1>3, <1>4, <1>5, <1>6 DEF RowsInv

\* A job that exists goes on existing, with the same row; its attempts are
\* counted up while it is active.
LEMMA JobsGoOn ==
  ASSUME ChainInv, Shape, NEW j \in JobIds, Exists(j)
  PROVE  /\ Exists(j)' /\ jobs'[j].render = jobs[j].render
         /\ jobs'[j].status \in Active =>
              /\ jobs[j].status \in Active
              /\ jobs'[j].attempts \in {jobs[j].attempts, jobs[j].attempts + 1}
              /\ jobs'[j].status = "running" =>
                   \/ jobs[j].status = "running" /\ jobs'[j].attempts = jobs[j].attempts
                   \/ jobs[j].status = "queued" /\ jobs'[j].attempts = jobs[j].attempts + 1
<1>a. \A k \in JobIds : Exists(k) => ~IsNextId(jobs, k)
  BY NextIds
<1> DEFINE Goal == /\ Exists(j)' /\ jobs'[j].render = jobs[j].render
                   /\ jobs'[j].status \in Active =>
                        /\ jobs[j].status \in Active
                        /\ jobs'[j].attempts \in {jobs[j].attempts, jobs[j].attempts + 1}
                        /\ jobs'[j].status = "running" =>
                             \/ jobs[j].status = "running" /\ jobs'[j].attempts = jobs[j].attempts
                             \/ jobs[j].status = "queued" /\ jobs'[j].attempts = jobs[j].attempts + 1
<1>1. CASE jobs'[j] = jobs[j]
  BY <1>1 DEF Exists, Active
<1>2. CASE Turns(j)
  BY <1>2 DEF Turns, Exists, Active
<1>3. ASSUME NEW s \in Ended, Ends(j, s) PROVE Goal
  BY <1>3 DEF Ends, Exists, Active, Ended
<1>4. ASSUME NEW q \in Requests, NEW n \in JobIds, Copies(q, n, j) PROVE Goal
  BY <1>4 DEF Copies, Exists, Active, Retryable
<1>5. \/ jobs'[j] = jobs[j] \/ Turns(j) \/ \E s \in Ended : Ends(j, s)
      \/ \E q \in Requests, n \in JobIds : Copies(q, n, j)
  BY <1>a, OneRow DEF IsNextId
<1> QED BY <1>1, <1>2, <1>3, <1>4, <1>5

\* Every step keeps ChainInv.
LEMMA ChainStep ==
  ASSUME ChainInv, [Next]_vars PROVE ChainInv'
<1>a. /\ Shape /\ jobs' \in [JobIds -> JobRow] /\ renders' \in [Renders -> RenderRow]
      /\ workers' \in [Workers -> WorkerRow] /\ \A w \in Workers : Moves(w)
      /\ requests' \in [Requests -> RequestRow] /\ \A q \in Requests : Serves(q)
  BY StepHasShape, ThreadMoves, RequestMoves
<1>b. /\ jobs \in [JobIds -> JobRow] /\ workers \in [Workers -> WorkerRow]
      /\ RowsInv /\ ThreadHasJob /\ IdleForgets /\ RetryHasJob
  BY DEF ChainInv, TypeOK
<1>1. TypeOK'
  <2>1. UNCHANGED site
    BY DEF Next, SameSite, vars
  <2> QED BY <1>a, <2>1 DEF ChainInv, TypeOK, RenderRow
<1>2. RowsInv'
  BY <1>a, QuietShapes, QuietRows, InsertRows, CopyRows DEF Shape
<1>3. ASSUME NEW w \in Workers, workers'[w].stage # "idle"
      PROVE  /\ workers'[w].job \in JobIds /\ jobs'[workers'[w].job].status # "absent"
             /\ jobs'[workers'[w].job].status \in Active =>
                  workers'[w].attempt <= jobs'[workers'[w].job].attempts
  <2>1. CASE Takes(w)
    <3>1. jobs'[workers'[w].job] \in JobRow
      BY <1>a, <2>1 DEF Takes
    <3> QED BY <2>1, <3>1 DEF Takes, Exists, JobRow
  <2>2. CASE \/ workers'[w] = workers[w]
             \/ /\ workers[w].stage # "idle" /\ workers'[w].job = workers[w].job
                /\ workers'[w].attempt = workers[w].attempt
    <3>1. /\ workers[w].stage # "idle" /\ workers'[w].job = workers[w].job
          /\ workers'[w].attempt = workers[w].attempt
      BY <1>3, <2>2
    <3>2. PICK j \in JobIds : j = workers[w].job /\ Exists(j)
      BY <1>b, <3>1 DEF ThreadHasJob
    <3>3. workers[w] \in WorkerRow /\ jobs[j] \in JobRow
      BY <1>b, <3>2
    <3>4. workers[w].attempt \in Nat /\ jobs[j].attempts \in Nat
      BY <3>3 DEF WorkerRow, JobRow
    <3>5. jobs[j].status \in Active => workers[w].attempt <= jobs[j].attempts
      BY <1>b, <3>1, <3>2 DEF ThreadHasJob
    <3>6. /\ Exists(j)'
          /\ jobs'[j].status \in Active =>
               /\ jobs[j].status \in Active
               /\ jobs'[j].attempts \in {jobs[j].attempts, jobs[j].attempts + 1}
      BY <1>a, <3>2, JobsGoOn
    <3>7. jobs'[j].status \in Active => workers[w].attempt <= jobs'[j].attempts
      BY <3>4, <3>5, <3>6
    <3>8. workers'[w].job = j
      BY <3>1, <3>2
    <3> QED BY <3>2, <3>6, <3>7, <3>8, <3>1 DEF Exists
  <2>3. CASE Rests(w)
    BY <1>3, <2>3 DEF Rests, Idle
  <2>4. CASE Proceeds(w)
    BY <2>2, <2>4 DEF Proceeds
  <2> QED BY <1>a, <2>1, <2>2, <2>3, <2>4 DEF Moves
<1>4. ThreadHasJob'
  BY <1>3 DEF ThreadHasJob, Exists
<1>5. IdleForgets'
  BY <1>a, <1>b DEF Moves, Takes, Proceeds, Rests, Idle, IdleForgets
<1>6. ASSUME NEW q \in Requests, requests'[q].stage \in RetryStages
      PROVE  requests'[q].job \in JobIds /\ jobs'[requests'[q].job].status # "absent"
  <2>1. CASE Loads(q)
    BY <2>1 DEF Loads, Still, Exists
  <2>2. CASE requests'[q] = requests[q] \/ Advances(q)
    <3>1. requests[q].stage \in RetryStages /\ requests'[q].job = requests[q].job
      BY <1>6, <2>2 DEF Advances, RetryStages
    <3>2. requests[q].job \in JobIds /\ Exists(requests[q].job)
      BY <1>b, <3>1 DEF RetryHasJob
    <3>3. PICK k \in JobIds : k = requests[q].job
      BY <3>2
    <3>4. jobs'[k].status # "absent"
      BY <1>a, <3>2, <3>3, JobsGoOn DEF Exists
    <3> QED BY <3>1, <3>3, <3>4
  <2>3. CASE Locks(q) \/ Drops(q)
    BY <1>6, <2>3 DEF Locks, Drops, NoRequest, RetryStages
  <2> QED BY <1>a, <2>1, <2>2, <2>3 DEF Serves
<1>7. RetryHasJob'
  BY <1>6 DEF RetryHasJob, Exists
<1> QED BY <1>1, <1>2, <1>4, <1>5, <1>7 DEF ChainInv

\* The initial state satisfies ChainInv.
LEMMA ChainInit == Init => ChainInv
<1> SUFFICES ASSUME Init PROVE ChainInv
  OBVIOUS
<1>1. TypeOK
  BY RowTypes DEF Init, TypeOK, Status, Active
<1>2. RowsInv
  BY DEF Init, RowsInv, NobodyJob, Exists, Shown, IdsInOrder, JobHasRender, AbsentFresh, RenderHasJob,
     LastJob, NewestJob, RetriedOver, CancelRuns
<1>3. ThreadHasJob /\ IdleForgets /\ RetryHasJob
  BY DEF Init, Idle, NoRequest, ThreadHasJob, IdleForgets, RetryHasJob, RetryStages
<1> QED BY <1>1, <1>2, <1>3 DEF ChainInv

\* The rows of jobs, renders, threads and requests keep their shapes.
THEOREM TypeCorrect == Spec => []TypeOK
<1>1. ChainInv => TypeOK
  BY DEF ChainInv
<1>2. ChainInv /\ [Next]_vars => ChainInv'
  BY ChainStep
<1> QED BY ChainInit, <1>1, <1>2, PTL DEF Spec

-----------------------------------------------------------------------------
(* Who holds a lease, and who has seen a cancellation *)

\* Where every worker that is silent is dead, a thread has its lease until it
\* lets go of it.
ThreadsHold == ~site.pauses => \A w \in Workers : workers[w].stage # "idle" => Holds(w)
OneHolder == \A w, x \in Workers : workers[w].job = workers[x].job /\ Holds(w) /\ Holds(x) => w = x

\* What a heartbeat saw is still pending, or the job has ended with it.
SeenCancels ==
  \A w \in Workers : workers[w].seen =>
    /\ workers[w].job \in JobIds
    /\ \/ Holds(w) /\ jobs[workers[w].job].cancel
       \/ jobs[workers[w].job].status = "cancelled"

HolderInv == ChainInv /\ ThreadsHold /\ OneHolder /\ SeenCancels

\* A thread that holds its lease after a step it did not claim in held it
\* before: a lease that is lost does not come back.
LEMMA HeldBefore ==
  ASSUME ChainInv, [Next]_vars, NEW w \in Workers, Holds(w)'
  PROVE  \/ Takes(w)
         \/ /\ Holds(w)
            /\ workers'[w].job = workers[w].job
            /\ workers'[w] = workers[w] \/ Proceeds(w)
<1>a. Shape /\ Moves(w)
  BY StepHasShape, ThreadMoves
<1>b. /\ jobs \in [JobIds -> JobRow] /\ workers \in [Workers -> WorkerRow] /\ ThreadHasJob /\ IdleForgets
  BY DEF ChainInv, TypeOK
<1>1. CASE Rests(w)
  BY <1>1, Ids DEF Rests, Idle, Holds
<1>2. CASE workers'[w] = workers[w] \/ Proceeds(w)
  <2>1. workers'[w].job = workers[w].job /\ workers'[w].attempt = workers[w].attempt
    BY <1>2 DEF Proceeds
  <2>2. PICK j \in JobIds : j = workers[w].job
    BY <2>1 DEF Holds
  <2>3. workers[w].stage # "idle"
    BY <1>b, <2>2, Ids DEF IdleForgets
  <2>4. Exists(j) /\ (jobs[j].status \in Active => workers[w].attempt <= jobs[j].attempts)
    BY <1>b, <2>2, <2>3 DEF ThreadHasJob
  <2>5. jobs'[j].status = "running" /\ jobs'[j].attempts = workers[w].attempt
    BY <2>1, <2>2 DEF Holds
  <2>6. workers[w].attempt \in Nat /\ jobs[j].attempts \in Nat
    <3>1. workers[w] \in WorkerRow /\ jobs[j] \in JobRow
      BY <1>b
    <3> QED BY <3>1 DEF WorkerRow, JobRow
  <2>7. \/ jobs[j].status = "running" /\ jobs'[j].attempts = jobs[j].attempts
        \/ jobs[j].status = "queued" /\ jobs'[j].attempts = jobs[j].attempts + 1
    BY <1>a, <2>4, <2>5, JobsGoOn DEF Active
  <2>8. ~(jobs[j].status = "queued" /\ jobs'[j].attempts = jobs[j].attempts + 1)
    BY <2>4, <2>5, <2>6 DEF Active
  <2> QED BY <1>2, <2>1, <2>2, <2>5, <2>7, <2>8 DEF Holds
<1> QED BY <1>a, <1>1, <1>2 DEF Moves

\* Nobody takes the lease of a thread that stands by, but the user may ask
\* its job to stop.
LEMMA StillHeld ==
  ASSUME ChainInv, [Next]_vars, ~site.pauses, OneHolder, NEW w \in Workers, Holds(w), workers'[w] = workers[w]
  PROVE  Holds(w)'
<1>a. jobs \in [JobIds -> JobRow] /\ workers \in [Workers -> WorkerRow]
  BY DEF ChainInv, TypeOK
<1>1. PICK j \in JobIds : /\ j = workers[w].job /\ jobs[j].status = "running"
                         /\ jobs[j].attempts = workers[w].attempt
  BY DEF Holds
<1>2. workers[w].stage # "idle"
  BY TargetShown
<1>3. SUFFICES jobs'[j].status = "running" /\ jobs'[j].attempts = jobs[j].attempts
  BY <1>1 DEF Holds
<1>4. CASE jobs'[j] = jobs[j]
  BY <1>1, <1>4
<1>5. ASSUME NEW x \in Workers, Claim(x) PROVE jobs'[j] = jobs[j]
  BY <1>5, <1>1, <1>a DEF Claim
<1>6. ASSUME NEW x \in Workers, Persist(x) PROVE jobs'[j] = jobs[j]
  <2>1. x # w
    BY <1>6, <1>2, <1>a DEF Persist, ToIdle, Idle
  <2>2. Holds(x) => Job(x) # j
    BY <2>1, <1>1 DEF OneHolder, Job
  <2>3. \A s : End(Job(x), s) /\ Job(x) # j => jobs'[j] = jobs[j]
    BY <1>a DEF End
  <2>4. \A n : Requeue(Job(x), n) /\ Job(x) # j => jobs'[j] = jobs[j]
    BY <1>a DEF Requeue
  <2> QED BY <1>6, <2>2, <2>3, <2>4 DEF Persist
<1>7. ASSUME NEW k \in JobIds, RequestCancel(k)
      PROVE  jobs'[j].status = "running" /\ jobs'[j].attempts = jobs[j].attempts
  <2>1. CASE k # j
    BY <1>7, <1>1, <1>a, <2>1 DEF RequestCancel, End
  <2>2. CASE k = j
    <3>1. jobs[j] \in JobRow
      BY <1>a
    <3> DEFINE row == [jobs[j] EXCEPT !.cancel = TRUE]
    <3>2. row.status = jobs[j].status /\ row.attempts = jobs[j].attempts
      BY <3>1 DEF JobRow
    <3>3. jobs' = [jobs EXCEPT ![j] = row]
      BY <1>1, <1>7, <2>2 DEF RequestCancel
    <3>4. jobs'[j] = row
      BY <3>3, <1>a
    <3> QED BY <1>1, <3>2, <3>4
  <2> QED BY <2>1, <2>2
<1>8. ASSUME NEW k \in JobIds, Recover(k) PROVE jobs'[j] = jobs[j]
  <2>1. k # j
    BY <1>1, <1>8 DEF Recover, Abandoned
  <2> QED BY <1>8, <1>a, <2>1 DEF Recover, End, Requeue
<1>9. ASSUME NEW q \in Requests, StartInsert(q) \/ RetryInsert(q) PROVE jobs'[j] = jobs[j]
  <2>1. \A n \in JobIds : IsNextId(jobs, n) => n # j
    BY <1>1 DEF IsNextId
  <2>2. CASE StartInsert(q)
    BY <1>a, <2>1, <2>2 DEF StartInsert
  <2>3. CASE RetryInsert(q)
    BY <1>1, <1>a, <2>1, <2>3 DEF RetryInsert, Retryable
  <2> QED BY <1>9, <2>2, <2>3
<1>10. \/ UNCHANGED jobs
       \/ \E x \in Workers : Claim(x) \/ Persist(x)
       \/ \E k \in JobIds : RequestCancel(k) \/ Recover(k)
       \/ \E q \in Requests : StartInsert(q) \/ RetryInsert(q)
  BY DEF Next, Step, vars, Writes, Reads, StartCheck, StartAdmit, Admit, Refused, StartLock,
     RetryLoad, RetryCheck, RetryAdmit, Worker, Open, Heartbeat, StartRender, RenderEnds, FinishRender, RenderFails,
     RenderRaises, RenderCancelled, RenderStops, Crash
<1> QED BY <1>4, <1>5, <1>6, <1>7, <1>8, <1>9, <1>10

\* A job that ended keeps its outcome.
LEMMA EndedStay ==
  ASSUME ChainInv, Shape, NEW j \in JobIds, jobs[j].status \in Ended
  PROVE  jobs'[j].status = jobs[j].status
<1>1. ~IsNextId(jobs, j) /\ jobs[j].status \notin Active
  BY DEF IsNextId, Ended, Active
<1>2. jobs'[j] = jobs[j] \/ \E q \in Requests, n \in JobIds : Copies(q, n, j)
  BY <1>1, OneRow DEF Turns, Ends
<1> QED BY <1>2 DEF Copies

\* A pending cancellation stays pending, or the job ends with it; or the
\* holder of the lease ends the job and rests.
LEMMA CancelStays ==
  ASSUME ChainInv, Shape, NEW j \in JobIds, jobs[j].cancel
  PROVE  \/ jobs'[j].cancel /\ jobs'[j].status = "running" /\ jobs'[j].attempts = jobs[j].attempts
         \/ jobs'[j].status = "cancelled"
         \/ \E w \in Workers : Holds(w) /\ Job(w) = j /\ workers'[w] = Idle
<1> DEFINE Goal == \/ jobs'[j].cancel /\ jobs'[j].status = "running" /\ jobs'[j].attempts = jobs[j].attempts
                   \/ jobs'[j].status = "cancelled"
                   \/ \E w \in Workers : Holds(w) /\ Job(w) = j /\ workers'[w] = Idle
<1>1. jobs[j].status = "running"
  BY DEF ChainInv, RowsInv, CancelRuns
<1>2. CASE jobs'[j] = jobs[j]
  BY <1>1, <1>2
<1>3. CASE Turns(j)
  BY <1>1, <1>3 DEF Turns
<1>4. ASSUME NEW s \in Ended, Ends(j, s) PROVE Goal
  BY <1>4 DEF Ends
<1>5. jobs'[j] = jobs[j] \/ Turns(j) \/ \E s \in Ended : Ends(j, s)
  <2>1. ~IsNextId(jobs, j) /\ jobs[j].status \notin Retryable
    BY <1>1 DEF IsNextId, Retryable
  <2>2. ~\E q \in Requests, n \in JobIds : Copies(q, n, j)
    BY <2>1 DEF Copies
  <2> QED BY <2>1, <2>2, OneRow
<1> QED BY <1>2, <1>3, <1>4, <1>5

\* Every step keeps HolderInv.
LEMMA HolderStep ==
  ASSUME HolderInv, [Next]_vars PROVE HolderInv'
<1>a. /\ ChainInv /\ ChainInv' /\ Shape /\ ThreadsHold /\ OneHolder /\ SeenCancels
      /\ \A w \in Workers : Moves(w)
      /\ UNCHANGED site
  <2>1. UNCHANGED site
    BY DEF Next, SameSite, vars
  <2> QED BY <2>1, ChainStep, StepHasShape, ThreadMoves DEF HolderInv
<1>1. ASSUME ~site.pauses, NEW w \in Workers, workers'[w].stage # "idle" PROVE Holds(w)'
  <2>1. CASE workers'[w] = workers[w]
    BY <1>a, <1>1, <2>1, StillHeld DEF ThreadsHold
  <2>2. CASE Takes(w)
    BY <2>2 DEF Takes, Holds
  <2>3. CASE Proceeds(w)
    BY <1>a, <1>1, <2>3 DEF Proceeds, ThreadsHold, Holds
  <2>4. CASE Rests(w)
    BY <1>1, <2>4 DEF Rests, Idle
  <2> QED BY <1>a, <2>1, <2>2, <2>3, <2>4 DEF Moves
<1>2. ThreadsHold'
  BY <1>1, <1>a DEF ThreadsHold
<1>3. ASSUME NEW w \in Workers, NEW x \in Workers, Holds(w)', Holds(x)', workers'[w].job = workers'[x].job
      PROVE  w = x
  <2>1. CASE Takes(w) /\ Takes(x)
    <3>1. workers'[w] # workers[w] /\ workers'[x] # workers[x]
      BY <2>1 DEF Takes
    <3> QED BY <1>a, <3>1, ThreadMoves
  <2>2. ASSUME NEW u \in Workers, NEW v \in Workers, Takes(u), Holds(v), workers'[v].job = workers[v].job,
               workers'[u].job = workers'[v].job
        PROVE  FALSE
    BY <2>2 DEF Takes, Holds
  <2>3. CASE Holds(w) /\ Holds(x) /\ workers'[w].job = workers[w].job /\ workers'[x].job = workers[x].job
    BY <1>3, <1>a, <2>3 DEF OneHolder
  <2>4. Takes(w) \/ (Holds(w) /\ workers'[w].job = workers[w].job)
    BY <1>3, <1>a, HeldBefore
  <2>5. Takes(x) \/ (Holds(x) /\ workers'[x].job = workers[x].job)
    BY <1>3, <1>a, HeldBefore
  <2> QED BY <1>3, <2>1, <2>2, <2>3, <2>4, <2>5
<1>4. OneHolder'
  BY <1>3 DEF OneHolder
<1>5. ASSUME NEW w \in Workers, workers'[w].seen
      PROVE  /\ workers'[w].job \in JobIds
             /\ \/ Holds(w)' /\ jobs'[workers'[w].job].cancel
                \/ jobs'[workers'[w].job].status = "cancelled"
  <2>1. ~Takes(w) /\ ~Rests(w)
    BY <1>5 DEF Takes, Rests, Idle
  <2>2. /\ workers'[w].job = workers[w].job /\ workers'[w].attempt = workers[w].attempt
        /\ workers[w].seen \/ (Holds(w) /\ jobs[Job(w)].cancel)
    BY <1>a, <1>5, <2>1 DEF Moves, Proceeds
  <2>3. PICK j \in JobIds : /\ j = workers[w].job
                           /\ ((Holds(w) /\ jobs[j].cancel) \/ jobs[j].status = "cancelled")
    BY <1>a, <2>2 DEF SeenCancels, Holds, Job
  <2>4. CASE jobs[j].status = "cancelled"
    BY <1>a, <2>2, <2>3, <2>4, EndedStay DEF Ended
  <2>5. CASE Holds(w) /\ jobs[j].cancel
    <3>1. ~\E x \in Workers : Holds(x) /\ Job(x) = j /\ workers'[x] = Idle
      <4>1. SUFFICES ASSUME NEW x \in Workers, Holds(x), Job(x) = j, workers'[x] = Idle PROVE FALSE
        OBVIOUS
      <4>2. x = w
        BY <1>a, <2>3, <2>5, <4>1 DEF OneHolder, Job
      <4> QED BY <2>1, <4>1, <4>2 DEF Rests
    <3>2. \/ jobs'[j].cancel /\ jobs'[j].status = "running" /\ jobs'[j].attempts = jobs[j].attempts
          \/ jobs'[j].status = "cancelled"
      BY <1>a, <2>5, <3>1, CancelStays
    <3> QED BY <2>2, <2>3, <2>5, <3>2 DEF Holds
  <2> QED BY <2>3, <2>4, <2>5
<1>6. SeenCancels'
  BY <1>5 DEF SeenCancels
<1> QED BY <1>a, <1>2, <1>4, <1>6 DEF HolderInv

\* The initial state satisfies HolderInv.
LEMMA HolderInit == Init => HolderInv
<1> SUFFICES ASSUME Init PROVE HolderInv
  OBVIOUS
<1>1. ThreadsHold /\ OneHolder /\ SeenCancels
  BY Ids DEF Init, ThreadsHold, OneHolder, SeenCancels, Idle, Holds
<1> QED BY <1>1, ChainInit DEF HolderInv

-----------------------------------------------------------------------------
(* A job that succeeded has its video *)

\* A thread that still holds its lease reports success only for a row that
\* has a video.
HolderHasVideo ==
  \A w \in Workers : Holds(w) /\ workers[w].outcome = "succeeded" =>
    renders[Target(w)].status = "succeeded"

VideoInv == ChainInv /\ HolderHasVideo /\ SucceededHasVideo

\* A video goes away only when a job of its row that ended without success
\* is retried.
LEMMA VideoStays ==
  ASSUME ChainInv, Shape, NEW r \in Renders, renders[r].status = "succeeded",
         renders'[r].status # "succeeded"
  PROVE  \E old \in JobIds : /\ jobs[old].render = r /\ jobs[old].status \in Retryable
                            /\ ~jobs[old].retried
<1>1. \A n \in Renders : IsNextId(renders, n) => n # r
  BY NextIds DEF Shown
<1>2. ~Still /\ \A j \in JobIds : ~Turns(j)
  BY DEF Still, Turns
<1>3. \A j \in JobIds, s \in Ended : ~Ends(j, s)
  BY DEF Ends, Active
<1>4. \A w \in Workers : ~Paints(w)
  BY DEF Paints, OtherRows, Active
<1>5. \A q \in Requests, n \in JobIds, x \in Renders : ~Inserts(q, n, x)
  BY <1>1 DEF Inserts, OtherRows
<1>6. PICK q \in Requests, n \in JobIds, old \in JobIds : Copies(q, n, old)
  BY <1>2, <1>3, <1>4, <1>5 DEF Shape
<1> QED BY <1>6 DEF Copies, OtherRows

\* Every step keeps VideoInv.
LEMMA VideoStep ==
  ASSUME VideoInv, [Next]_vars PROVE VideoInv'
<1>a. ChainInv /\ ChainInv' /\ Shape /\ HolderHasVideo /\ SucceededHasVideo
  BY ChainStep, StepHasShape DEF VideoInv
<1>b. /\ LastJob /\ RetriedOver /\ JobHasRender
  BY <1>a DEF ChainInv, RowsInv
\* The row of the last job of a chain keeps its video unless that job failed.
<1>1. ASSUME NEW j \in JobIds, Exists(j), jobs[j].status \notin Retryable,
             renders[jobs[j].render].status = "succeeded"
      PROVE  renders'[jobs[j].render].status = "succeeded"
  <2>1. ~jobs[j].retried /\ jobs[j].render \in Renders
    BY <1>b, <1>1 DEF RetriedOver, JobHasRender
  <2>2. SUFFICES ASSUME NEW old \in JobIds, jobs[old].render = jobs[j].render,
                        jobs[old].status \in Retryable, ~jobs[old].retried
                 PROVE  FALSE
    BY <1>a, <1>1, <2>1, VideoStays
  <2>3. Exists(old)
    BY <2>2 DEF Exists, Retryable
  <2> QED BY <1>b, <1>1, <2>1, <2>2, <2>3 DEF LastJob
<1>2. ASSUME NEW w \in Workers, Holds(w)', workers'[w].outcome = "succeeded"
      PROVE  renders'[Target(w)'].status = "succeeded"
  <2>1. ~Takes(w)
    BY <1>2 DEF Takes
  <2>2. Holds(w) /\ workers'[w].job = workers[w].job /\ (workers'[w] = workers[w] \/ Proceeds(w))
    BY <1>2, <1>a, <2>1, HeldBefore
  <2>3. PICK j \in JobIds : j = workers[w].job /\ jobs[j].status = "running"
    BY <2>2 DEF Holds
  <2>4. Exists(j) /\ jobs'[j].render = jobs[j].render
    BY <1>a, <2>3, JobsGoOn DEF Exists
  <2>5. Target(w) = jobs[j].render /\ Target(w)' = jobs[j].render
    BY <2>2, <2>3, <2>4 DEF Target, Job
  <2>6. CASE workers[w].outcome = "succeeded"
    BY <1>1, <1>a, <2>2, <2>3, <2>4, <2>5, <2>6 DEF HolderHasVideo, Retryable
  <2>7. CASE renders'[Target(w)].status = "succeeded"
    BY <2>5, <2>7
  <2> QED BY <1>2, <2>2, <2>6, <2>7 DEF Proceeds
<1>3. HolderHasVideo'
  BY <1>2 DEF HolderHasVideo
<1>4. ASSUME NEW j \in JobIds, jobs'[j].status = "succeeded"
      PROVE  renders'[jobs'[j].render].status = "succeeded"
  <2>1. Exists(j) /\ (jobs[j].status = "succeeded" \/ Ends(j, "succeeded"))
    BY SMTT(30), <1>a, <1>4, NewRows DEF Shape, Still, Turns, Ends, Paints, Inserts, Copies, Others, Exists, Active
  <2>2. jobs'[j].render = jobs[j].render
    BY <1>a, <2>1, JobsGoOn
  <2>3. jobs[j].status \notin Retryable
    BY <2>1 DEF Ends, Active, Retryable
  <2>4. renders[jobs[j].render].status = "succeeded"
    BY <1>a, <2>1 DEF Ends, SucceededHasVideo, HolderHasVideo, Target, Job
  <2> QED BY <1>1, <2>1, <2>2, <2>3, <2>4
<1>5. SucceededHasVideo'
  BY <1>4 DEF SucceededHasVideo
<1> QED BY <1>a, <1>3, <1>5 DEF VideoInv

\* A render job reported as succeeded has its video, on either database, with
\* any number of retries, crashes, pauses and recoveries.
THEOREM SuccessHasVideo == Spec => []SucceededHasVideo
<1>1. Init => VideoInv
  <2>1. Init => HolderHasVideo /\ SucceededHasVideo
    BY DEF Init, HolderHasVideo, SucceededHasVideo, Idle, NobodyJob
  <2> QED BY <2>1, ChainInit DEF VideoInv
<1>2. VideoInv /\ [Next]_vars => VideoInv'
  BY VideoStep
<1>3. VideoInv => SucceededHasVideo
  BY DEF VideoInv
<1> QED BY <1>1, <1>2, <1>3, PTL DEF Spec

-----------------------------------------------------------------------------
(* An active job can make its video *)

CanInv == HolderInv /\ ActiveCanRender

\* A job that was cancelled before a retry of its row stays that.
LEMMA CancelledStay ==
  ASSUME ChainInv, Shape, NEW j \in JobIds, Exists(j), CancelledBefore(j)
  PROVE  CancelledBefore(j)'
<1>1. PICK k \in JobIds : k < j /\ jobs[k].render = jobs[j].render /\ jobs[k].status = "cancelled"
  BY DEF CancelledBefore
<1>2. jobs'[k].status = "cancelled" /\ jobs'[k].render = jobs[k].render
  BY <1>1, EndedStay, JobsGoOn DEF Ended, Exists
<1>3. jobs'[j].render = jobs[j].render
  BY JobsGoOn
<1> QED BY <1>1, <1>2, <1>3 DEF CancelledBefore

\* Every step keeps CanInv.
LEMMA CanStep ==
  ASSUME CanInv, [Next]_vars PROVE CanInv'
<1>a. /\ HolderInv' /\ ChainInv /\ Shape /\ ActiveCanRender /\ SeenCancels /\ ThreadsHold
      /\ UNCHANGED site /\ site.pauses \in BOOLEAN
  <2>1. UNCHANGED site
    BY DEF Next, SameSite, vars
  <2>2. site.pauses \in BOOLEAN
    BY SiteType DEF CanInv, HolderInv, ChainInv, TypeOK
  <2> QED BY <2>1, <2>2, HolderStep, StepHasShape DEF CanInv, HolderInv
<1>b. /\ LastJob /\ NewestJob /\ RetriedOver /\ JobHasRender /\ RenderHasJob /\ CancelRuns
      /\ jobs \in [JobIds -> JobRow]
  BY <1>a DEF ChainInv, RowsInv, TypeOK
<1>1. ASSUME NEW j \in JobIds, jobs'[j].status \in Active, renders'[jobs'[j].render].status = "cancelled"
      PROVE  jobs'[j].cancel \/ (site.pauses /\ CancelledBefore(j)')
  <2>1. Exists(j)
    <3>1. ASSUME NEW q \in Requests, NEW r \in Renders, Inserts(q, j, r) PROVE FALSE
      BY <1>1, <3>1, NewRows DEF Inserts
    <3>2. ASSUME NEW q \in Requests, NEW old \in JobIds, Copies(q, j, old) PROVE FALSE
      BY <1>1, <3>2, NewRows DEF Copies
    <3>3. CASE SameJobs
      BY <1>1, <3>3 DEF SameJobs, Exists, Active
    <3>4. ASSUME NEW q \in Requests, NEW n \in JobIds, NEW r \in Renders, Inserts(q, n, r) PROVE Exists(j)
      BY <1>1, <3>1, <3>4 DEF Inserts, Others, Exists, Active
    <3>5. ASSUME NEW q \in Requests, NEW n \in JobIds, NEW old \in JobIds, Copies(q, n, old)
          PROVE  Exists(j)
      BY <1>1, <3>2, <3>5 DEF Copies, Exists, Active
    <3> QED BY <1>a, <3>3, <3>4, <3>5, QuietShapes DEF Shape
  <2> DEFINE r == jobs[j].render
  <2>2. jobs[j].status \in Active /\ jobs'[j].render = r /\ ~jobs[j].retried /\ r \in Renders
    BY <1>a, <1>b, <1>1, <2>1, JobsGoOn DEF RetriedOver, JobHasRender, Active, Retryable
  <2>3. ASSUME NEW k \in JobIds, jobs[k].status \in Active, jobs[k].render = r PROVE k = j
    BY <1>b, <2>1, <2>2, <2>3 DEF LastJob, RetriedOver, Exists, Active, Retryable
  <2>4. CASE jobs[j].cancel
    <3>1. \/ jobs'[j].cancel \/ jobs'[j].status = "cancelled"
          \/ \E w \in Workers : Holds(w) /\ Job(w) = j /\ workers'[w] = Idle
      BY <1>a, <2>4, CancelStays
    <3>2. jobs[j].status = "running"
      BY <1>b, <2>4 DEF CancelRuns
    <3>3. CASE jobs'[j] = jobs[j]
      BY <2>4, <3>3
    <3>4. CASE Turns(j)
      BY <2>4, <3>2, <3>4 DEF Turns
    <3> QED BY ZenonT(60), <1>a, <1>1, <2>1, <2>2, <3>3, <3>4, NextIds DEF Shape, Still, Turns, Ends, Paints, Inserts,
         Copies, Others, Active, Ended, Retryable
  <2>5. CASE site.pauses /\ CancelledBefore(j)
    BY <1>a, <2>1, <2>5, CancelledStay
  <2>6. CASE renders[r].status # "cancelled"
    <3>1. ASSUME NEW k \in JobIds, NEW s \in Ended, Ends(k, s) PROVE FALSE
      <4>1. renders[r].job = k /\ renders[r].status \in Active
        BY <1>1, <2>2, <2>6, <3>1 DEF Ends
      <4>2. jobs[k].render = r
        BY <1>b, <2>2, <4>1 DEF RenderHasJob, Shown, Active
      <4>3. k = j
        BY <2>3, <3>1, <4>2 DEF Ends
      <4> QED BY <1>1, <3>1, <4>3 DEF Ends, Active, Ended
    <3>2. ASSUME NEW w \in Workers, Paints(w)
          PROVE  jobs'[j].cancel \/ (site.pauses /\ CancelledBefore(j)')
      <4>1. Target(w) = r
        BY <1>1, <2>2, <2>6, <3>2 DEF Paints, OtherRows
      <4>2. workers[w].seen
        BY <1>1, <2>2, <2>6, <3>2, <4>1 DEF Paints
      <4>3. /\ Job(w) \in JobIds /\ jobs[Job(w)].render = r
            /\ ((Holds(w) /\ jobs[Job(w)].cancel) \/ jobs[Job(w)].status = "cancelled")
        BY <1>a, <4>1, <4>2 DEF SeenCancels, Job, Target
      <4>4. CASE Holds(w) /\ jobs[Job(w)].cancel
        <5>1. Job(w) = j
          BY <1>b, <2>3, <4>3, <4>4 DEF CancelRuns, Active
        <5> QED BY <3>2, <4>4, <5>1 DEF Paints
      <4>5. CASE jobs[Job(w)].status = "cancelled"
        <5>1. site.pauses
          BY <1>a, <3>2, <4>3, <4>5 DEF Paints, ThreadsHold, Holds, Job
        <5>2. Job(w) <= j /\ Job(w) # j
          BY <1>b, <2>1, <2>2, <4>3, <4>5 DEF NewestJob, Exists, Active
        <5>3. Job(w) < j
          <6>1. Job(w) \in Nat /\ j \in Nat
            BY <4>3, Ids
          <6> QED BY <5>2, <6>1
        <5>4. CancelledBefore(j)
          BY <4>3, <4>5, <5>3 DEF CancelledBefore
        <5> QED BY <1>a, <2>1, <5>1, <5>4, CancelledStay
      <4> QED BY <4>3, <4>4, <4>5
    <3>3. ~Still /\ \A k \in JobIds : ~Turns(k)
      BY <1>1, <2>2, <2>6 DEF Still, Turns
    <3>4. \A q \in Requests, n \in JobIds : (\A x \in Renders : ~Inserts(q, n, x)) /\ \A old \in JobIds : ~Copies(q, n, old)
      BY <1>1, <2>2, <2>6, NewRows DEF Inserts, Copies, OtherRows
    <3> QED BY <1>a, <3>1, <3>2, <3>3, <3>4 DEF Shape
  <2>7. renders[r].status = "cancelled" => jobs[j].cancel \/ (site.pauses /\ CancelledBefore(j))
    BY <1>a, <2>2 DEF ActiveCanRender, ActiveJobs
  <2> QED BY <2>4, <2>5, <2>6, <2>7
<1>2. ActiveCanRender'
  BY <1>1, <1>a DEF ActiveCanRender, ActiveJobs
<1> QED BY <1>a, <1>2 DEF CanInv

\* A queued or running job is never left with a cancelled row, unless the job
\* itself is being cancelled or a paused worker has seen the cancellation of
\* an earlier job of the row.
THEOREM ActiveJobsCanRender == Spec => []ActiveCanRender
<1>1. Init => CanInv
  <2>1. Init => ActiveCanRender
    BY DEF Init, ActiveCanRender, ActiveJobs, NobodyJob, Active
  <2> QED BY <2>1, HolderInit DEF CanInv
<1>2. CanInv /\ [Next]_vars => CanInv'
  BY CanStep
<1>3. CanInv => ActiveCanRender
  BY DEF CanInv
<1> QED BY <1>1, <1>2, <1>3, PTL DEF Spec

-----------------------------------------------------------------------------
(* What a finished row may become *)

\* A row shown as succeeded or cancelled changes only when a retry queues it.
LEMMA FinalStep ==
  ASSUME ChainInv, [Next]_vars, NEW r \in Renders, renders[r].status \in {"succeeded", "cancelled"}
  PROVE  renders'[r] = renders[r] \/ renders'[r].status = "queued"
<1>a. Shape /\ renders[r].status \notin Active /\ ~IsNextId(renders, r)
  BY StepHasShape DEF Active, IsNextId
<1>1. CASE Still \/ \E j \in JobIds : Turns(j)
  BY <1>1 DEF Still, Turns
<1>2. ASSUME NEW j \in JobIds, NEW s \in Ended, Ends(j, s) PROVE renders'[r] = renders[r]
  BY <1>a, <1>2 DEF Ends
<1>3. ASSUME NEW w \in Workers, Paints(w) PROVE renders'[r] = renders[r]
  BY <1>a, <1>3 DEF Paints, OtherRows
<1>4. ASSUME NEW q \in Requests, NEW n \in JobIds, NEW x \in Renders, Inserts(q, n, x)
      PROVE  renders'[r] = renders[r]
  BY <1>a, <1>4 DEF Inserts, OtherRows
<1>5. ASSUME NEW q \in Requests, NEW n \in JobIds, NEW old \in JobIds, Copies(q, n, old)
      PROVE  renders'[r] = renders[r] \/ renders'[r].status = "queued"
  BY <1>5, NewRows DEF Copies, OtherRows
<1> QED BY <1>a, <1>1, <1>2, <1>3, <1>4, <1>5 DEF Shape

\* No attempt that comes late, paused or superseded, rewrites a render that is
\* shown as succeeded or cancelled; only a retry queues it again.
THEOREM FinishedRendersStay == Spec => FinalRendersStay
<1> DEFINE Stays == \A r \in Renders : renders[r].status \in {"succeeded", "cancelled"}
                     => renders'[r] = renders[r] \/ renders'[r].status = "queued"
<1>1. ChainInv /\ [Next]_vars => ChainInv'
  BY ChainStep
<1>2. ChainInv /\ [Next]_vars => [Stays]_vars
  BY FinalStep
<1> QED BY ChainInit, <1>1, <1>2, PTL DEF Spec, FinalRendersStay

-----------------------------------------------------------------------------
(* A row in progress names an active job *)

SettledInv == VideoInv /\ HolderInv /\ RendersSettled

\* Every step keeps the rows settled.
LEMMA SettledStep ==
  ASSUME SettledInv, [Next]_vars PROVE SettledInv'
<1>a. /\ VideoInv' /\ HolderInv' /\ ChainInv /\ Shape
      /\ HolderHasVideo /\ ThreadsHold /\ RendersSettled /\ UNCHANGED site
  <2>1. UNCHANGED site
    BY DEF Next, SameSite, vars
  <2> QED BY <2>1, VideoStep, HolderStep, StepHasShape DEF SettledInv, VideoInv, HolderInv
<1>b. RowsInv
  BY <1>a DEF ChainInv
<1>5. ASSUME NEW r \in Renders,
             renders'[r].status = "queued" \/ (renders'[r].status = "running" /\ ~site.pauses)
      PROVE  renders'[r].job \in JobIds /\ jobs'[renders'[r].job].status \in Active
  <2>1. CASE Still
    BY <1>5, <1>a, <2>1 DEF Still, RendersSettled
  <2>2. ASSUME NEW j \in JobIds, Turns(j)
        PROVE  renders'[r].job \in JobIds /\ jobs'[renders'[r].job].status \in Active
    BY <1>5, <1>a, <2>2 DEF Turns, Others, RendersSettled, Active
  <2>3. ASSUME NEW j \in JobIds, NEW s \in Ended, Ends(j, s)
        PROVE  renders'[r].job \in JobIds /\ jobs'[renders'[r].job].status \in Active
    <3>1. renders'[r] = renders[r] /\ (renders[r].job = j => s = "succeeded")
      BY <1>5, <2>3 DEF Ends, Active, Ended, Retryable
    <3>2. renders[r].job \in JobIds /\ jobs[renders[r].job].status \in Active
      BY <1>5, <1>a, <3>1 DEF RendersSettled
    <3>3. renders[r].job # j
      <4>1. SUFFICES ASSUME renders[r].job = j PROVE FALSE
        OBVIOUS
      <4>2. jobs[j].render = r
        BY <1>5, <1>b, <3>1, <4>1 DEF RowsInv, RenderHasJob, Shown, Active
      <4>3. renders[r].status = "succeeded"
        BY <1>a, <2>3, <3>1, <4>1, <4>2 DEF Ends, HolderHasVideo, Target, Job
      <4> QED BY <1>5, <3>1, <4>3 DEF Active
    <3> QED BY <2>3, <3>1, <3>2, <3>3 DEF Ends, Others
  <2>4. ASSUME NEW w \in Workers, Paints(w)
        PROVE  renders'[r].job \in JobIds /\ jobs'[renders'[r].job].status \in Active
    <3>1. CASE r # Target(w)
      BY <1>5, <1>a, <2>4, <3>1 DEF Paints, OtherRows, RendersSettled
    <3>2. CASE r = Target(w)
      <4>1. renders'[r].status = "running" /\ renders'[r].job = Job(w) /\ ~site.pauses
        BY <1>5, <2>4, <3>2 DEF Paints, Ended
      <4>2. Job(w) \in JobIds /\ jobs[Job(w)].status \in Active
        BY <1>a, <2>4, <4>1 DEF Paints, ThreadsHold, Holds, Job, Active
      <4> QED BY <2>4, <4>1, <4>2 DEF Paints
    <3> QED BY <3>1, <3>2
  <2>5. ASSUME NEW q \in Requests, NEW n \in JobIds, NEW x \in Renders, Inserts(q, n, x)
        PROVE  renders'[r].job \in JobIds /\ jobs'[renders'[r].job].status \in Active
    <3>1. jobs[n].status \notin Active
      BY <2>5 DEF Inserts, IsNextId, Active
    <3> QED BY <1>5, <1>a, <2>5, <3>1, NewRows DEF Inserts, Others, OtherRows, RendersSettled, Active
  <2>6. ASSUME NEW q \in Requests, NEW n \in JobIds, NEW old \in JobIds, Copies(q, n, old)
        PROVE  renders'[r].job \in JobIds /\ jobs'[renders'[r].job].status \in Active
    <3>1. jobs[n].status \notin Active /\ jobs[old].status \notin Active
      BY <2>6 DEF Copies, IsNextId, Active, Retryable
    <3> QED BY <1>5, <1>a, <2>6, <3>1, NewRows DEF Copies, OtherRows, RendersSettled, Active
  <2> QED BY <1>a, <2>1, <2>2, <2>3, <2>4, <2>5, <2>6 DEF Shape
<1>6. RendersSettled'
  BY <1>5, <1>a DEF RendersSettled
<1> QED BY <1>a, <1>6 DEF SettledInv

\* The initial state satisfies SettledInv.
LEMMA SettledInit == Init => SettledInv
<1> SUFFICES ASSUME Init PROVE SettledInv
  OBVIOUS
<1>1. HolderHasVideo /\ SucceededHasVideo
  BY DEF Init, HolderHasVideo, SucceededHasVideo, Idle, NobodyJob
<1>2. RendersSettled
  BY DEF Init, RendersSettled
<1> QED BY <1>1, <1>2, ChainInit, HolderInit DEF SettledInv, VideoInv

\* A queued row has a queued or running job, and so has a running one where
\* every worker that lost its lease is dead.
THEOREM RowsAreSettled == Spec => []RendersSettled
<1>1. SettledInv /\ [Next]_vars => SettledInv'
  BY SettledStep
<1>2. SettledInv => RendersSettled
  BY DEF SettledInv
<1> QED BY SettledInit, <1>1, <1>2, PTL DEF Spec

-----------------------------------------------------------------------------
(* The admission limit *)

\* Only one request is between the count and its insert; the writer of
\* SQLite is alone from its first statement on.
OneWriter ==
  SingleWriter => \A q, p \in Requests :
    requests[q].stage \in StartStages /\ requests[p].stage \in StartStages => q = p
NoRetries == ~Retries => \A q \in Requests : requests[q].stage \notin RetryStages
OneAdmission == \A q, p \in HasAdmission : q = p
RoomLeft == HasAdmission # {} => Cardinality(ActiveJobs) < site.limit

AdmissionInv == ChainInv /\ OneWriter /\ NoRetries /\ OneAdmission /\ RoomLeft /\ AdmissionLimit

\* There are finitely many active jobs.
LEMMA ActiveFinite ==
  /\ IsFiniteSet(ActiveJobs) /\ Cardinality(ActiveJobs) \in Nat
  /\ \A S \in SUBSET ActiveJobs : Cardinality(S) \in Nat /\ Cardinality(S) <= Cardinality(ActiveJobs)
<1>1. IsFiniteSet(JobIds)
  BY FS_Interval, ConstantsAssumption DEF JobIds
<1>2. ActiveJobs \in SUBSET JobIds
  BY DEF ActiveJobs
<1>3. IsFiniteSet(ActiveJobs)
  BY <1>1, <1>2, FS_Subset
<1>4. ASSUME NEW S \in SUBSET ActiveJobs PROVE Cardinality(S) \in Nat /\ Cardinality(S) <= Cardinality(ActiveJobs)
  BY <1>3, FS_Subset, FS_CardinalityType
<1> QED BY <1>3, <1>4, FS_CardinalityType

\* Jobs become active by an insert only, one at a time.
LEMMA ActiveGrows ==
  ASSUME ChainInv, [Next]_vars
  PROVE  \/ ActiveJobs' \subseteq ActiveJobs
         \/ \E q \in HasAdmission, n \in JobIds :
              requests'[q] = NoRequest /\ ActiveJobs' \subseteq ActiveJobs \cup {n}
<1>a. Shape
  BY StepHasShape
<1>1. CASE SameJobs
  BY <1>1 DEF SameJobs, ActiveJobs
<1>2. ASSUME NEW q \in Requests, NEW n \in JobIds, NEW r \in Renders, Inserts(q, n, r)
      PROVE  /\ q \in HasAdmission /\ requests'[q] = NoRequest
             /\ ActiveJobs' \subseteq ActiveJobs \cup {n}
  BY <1>2 DEF Inserts, Others, HasAdmission, ActiveJobs
<1>3. ASSUME NEW q \in Requests, NEW n \in JobIds, NEW old \in JobIds, Copies(q, n, old)
      PROVE  /\ q \in HasAdmission /\ requests'[q] = NoRequest
             /\ ActiveJobs' \subseteq ActiveJobs \cup {n}
  <2>1. q \in HasAdmission /\ requests'[q] = NoRequest
    BY <1>3 DEF Copies, HasAdmission
  <2>2. ASSUME NEW j \in JobIds, jobs'[j].status \in Active, j # n PROVE jobs[j].status \in Active
    BY <1>3, <2>2 DEF Copies
  <2> QED BY <2>1, <2>2 DEF ActiveJobs
<1> QED BY <1>a, <1>1, <1>2, <1>3, QuietShapes DEF Shape

\* With the admission lock, or without retries, no step exceeds the limit.
LEMMA AdmissionStep ==
  ASSUME AdmissionInv, [Next]_vars, ~(SingleWriter /\ Retries) PROVE AdmissionInv'
<1>a. /\ ChainInv /\ ChainInv' /\ OneWriter /\ NoRetries /\ OneAdmission /\ RoomLeft /\ AdmissionLimit
      /\ \A q \in Requests : Serves(q)
      /\ \A q, p \in Requests : requests'[q] # requests[q] /\ requests'[p] # requests[p] => q = p
      /\ UNCHANGED site /\ site.limit \in Nat
  <2>1. UNCHANGED site
    BY DEF Next, SameSite, vars
  <2>2. site.limit \in Nat
    BY SiteType DEF AdmissionInv, ChainInv, TypeOK
  <2> QED BY <2>1, <2>2, ChainStep, RequestMoves DEF AdmissionInv
<1>1. OneWriter'
  <2>1. ASSUME SingleWriter, NEW q \in Requests, NEW p \in Requests,
               requests'[q].stage \in StartStages, requests'[p].stage \in StartStages
        PROVE  q = p
    <3>1. ASSUME NEW x \in Requests, requests'[x].stage \in StartStages
          PROVE  requests[x].stage \in StartStages \/ Locks(x)
      BY <1>a, <3>1 DEF Serves, Loads, Advances, Drops, NoRequest, StartStages
    <3>2. ASSUME NEW x \in Requests, NEW y \in Requests, Locks(x), requests[y].stage \in StartStages
          PROVE  FALSE
      BY <2>1, <3>2 DEF Locks
    <3>3. ASSUME NEW x \in Requests, Locks(x) PROVE requests'[x] # requests[x]
      BY <3>3 DEF Locks
    <3> QED BY <1>a, <2>1, <3>1, <3>2, <3>3 DEF OneWriter
  <2> QED BY <2>1 DEF OneWriter
<1>2. NoRetries'
  <2>1. ASSUME ~Retries, NEW q \in Requests, requests'[q].stage \in RetryStages PROVE FALSE
    BY <1>a, <2>1 DEF NoRetries, Serves, Locks, Loads, Advances, Drops, NoRequest, RetryStages
  <2> QED BY <2>1 DEF NoRetries
\* Who is admitted now was before, or is the only one and found room.
<1>3. ASSUME NEW q \in Requests, requests'[q].stage \in {"start_admitted", "retry_admitted"}
      PROVE  \/ q \in HasAdmission /\ requests'[q] = requests[q]
             \/ /\ Still /\ Cardinality(ActiveJobs) < site.limit /\ HasAdmission = {}
                /\ requests'[q] # requests[q]
  <2>1. CASE requests'[q] = requests[q]
    BY <1>3, <2>1 DEF HasAdmission
  <2>2. CASE Advances(q)
    <3>1. /\ Still /\ Cardinality(ActiveJobs) < site.limit /\ requests'[q] # requests[q]
          /\ SingleWriter \/ HasAdmission = {}
          /\ requests[q].stage \in {"start_checked", "retry_checked"}
      BY <1>3, <2>2 DEF Advances
    <3>2. SingleWriter => HasAdmission = {}
      <4>1. SUFFICES ASSUME SingleWriter, NEW p \in HasAdmission PROVE FALSE
        OBVIOUS
      <4>2. /\ requests[p].stage \in {"start_admitted", "retry_admitted"} /\ p \in Requests
            /\ \A x \in Requests : requests[x].stage \notin RetryStages
        BY <1>a, <4>1 DEF HasAdmission, NoRetries
      <4>3. p = q
        BY <1>a, <3>1, <4>1, <4>2 DEF OneWriter, StartStages, RetryStages
      <4> QED BY <3>1, <4>2, <4>3
    <3> QED BY <3>1, <3>2
  <2>3. CASE Locks(q) \/ Loads(q) \/ Drops(q)
    BY <1>3, <2>3 DEF Locks, Loads, Drops, NoRequest
  <2> QED BY <1>a, <2>1, <2>2, <2>3 DEF Serves
<1>4. OneAdmission'
  BY <1>a, <1>3 DEF OneAdmission, HasAdmission
<1>5. \/ ActiveJobs' \subseteq ActiveJobs
      \/ \E q \in HasAdmission, n \in JobIds :
           requests'[q] = NoRequest /\ ActiveJobs' \subseteq ActiveJobs \cup {n}
  BY <1>a, ActiveGrows
<1>6. CASE ActiveJobs' \subseteq ActiveJobs
  <2>1. Cardinality(ActiveJobs') \in Nat /\ Cardinality(ActiveJobs') <= Cardinality(ActiveJobs)
        /\ Cardinality(ActiveJobs) \in Nat
    BY <1>6, ActiveFinite
  <2>2. AdmissionLimit'
    BY <1>a, <2>1 DEF AdmissionLimit
  <2>3. RoomLeft'
    <3>1. SUFFICES ASSUME HasAdmission' # {} PROVE Cardinality(ActiveJobs') < site.limit
      BY <1>a DEF RoomLeft
    <3>2. Cardinality(ActiveJobs) < site.limit
      BY <1>a, <1>3, <3>1 DEF RoomLeft, HasAdmission
    <3> QED BY <1>a, <2>1, <3>2
  <2> QED BY <1>a, <1>1, <1>2, <1>4, <2>2, <2>3 DEF AdmissionInv
<1>7. ASSUME NEW q \in HasAdmission, NEW n \in JobIds, requests'[q] = NoRequest,
             ActiveJobs' \subseteq ActiveJobs \cup {n}
      PROVE  AdmissionInv'
  <2>1. Cardinality(ActiveJobs) < site.limit
    BY <1>a DEF RoomLeft
  <2>2. /\ IsFiniteSet(ActiveJobs \cup {n}) /\ Cardinality(ActiveJobs \cup {n}) <= Cardinality(ActiveJobs) + 1
        /\ Cardinality(ActiveJobs) \in Nat
    <3>1. IsFiniteSet(ActiveJobs) /\ Cardinality(ActiveJobs) \in Nat
      BY ActiveFinite
    <3> HIDE DEF ActiveJobs
    <3>2. Cardinality(ActiveJobs \cup {n}) = IF n \in ActiveJobs THEN Cardinality(ActiveJobs)
                                             ELSE Cardinality(ActiveJobs) + 1
      BY <3>1, FS_AddElement
    <3> QED BY <3>1, <3>2, FS_AddElement
  <2>3. Cardinality(ActiveJobs') \in Nat /\ Cardinality(ActiveJobs') <= Cardinality(ActiveJobs \cup {n})
    BY <1>7, <2>2, FS_Subset, FS_CardinalityType
  <2>4. Cardinality(ActiveJobs \cup {n}) \in Nat
    BY <2>2, FS_CardinalityType
  <2>5. AdmissionLimit'
    BY <1>a, <2>1, <2>2, <2>3, <2>4 DEF AdmissionLimit
  <2>6. HasAdmission' = {}
    <3>1. SUFFICES ASSUME NEW p \in Requests, requests'[p].stage \in {"start_admitted", "retry_admitted"}
                   PROVE  FALSE
      BY DEF HasAdmission
    <3>2. p \in HasAdmission
      BY <1>3, <3>1
    <3>3. p = q
      BY <1>a, <3>2 DEF OneAdmission
    <3> QED BY <1>7, <3>1, <3>3 DEF NoRequest
  <2> QED BY <1>a, <1>1, <1>2, <1>4, <2>5, <2>6 DEF AdmissionInv, RoomLeft
<1> QED BY <1>5, <1>6, <1>7

\* The initial state satisfies AdmissionInv.
LEMMA AdmissionInit == Init => AdmissionInv
<1> SUFFICES ASSUME Init PROVE AdmissionInv
  OBVIOUS
<1>1. ActiveJobs = {} /\ HasAdmission = {}
  BY DEF Init, ActiveJobs, NobodyJob, Active, HasAdmission, NoRequest
<1>2. OneWriter /\ NoRetries
  BY DEF Init, NoRequest, OneWriter, NoRetries, StartStages, RetryStages
<1>3. site.limit \in Nat \ {0}
  BY SiteType DEF Init
<1>4. AdmissionLimit
  BY <1>1, <1>3, FS_EmptySet DEF AdmissionLimit
<1> QED BY <1>1, <1>2, <1>4, ChainInit DEF AdmissionInv, OneAdmission, RoomLeft

\* No more renders than RENDER_MAX_QUEUED are ever queued or running, on
\* PostgreSQL with and on SQLite without retries of renders. (The retry's
\* transaction on SQLite has not written when it counts: there it fails.)
THEOREM QueueIsLimited ==
  ASSUME ~(SingleWriter /\ Retries) PROVE Spec => []AdmissionLimit
<1>1. AdmissionInv /\ [Next]_vars => AdmissionInv'
  BY AdmissionStep
<1>2. AdmissionInv => AdmissionLimit
  BY DEF AdmissionInv
<1> QED BY AdmissionInit, <1>1, <1>2, PTL DEF Spec

-----------------------------------------------------------------------------
(* Starts of a version exclude each other *)

FirstActive(v) == {j \in ActiveRenders(v) : FirstJob(j)}

\* The lock of the version row, and what the check under it has seen.
OneStart ==
  \A q, p \in Requests :
    /\ requests[q].stage \in StartStages /\ requests[p].stage \in StartStages
    /\ requests[q].version = requests[p].version
    => q = p
StartChecked ==
  \A q \in Requests : requests[q].stage \in {"start_checked", "start_admitted"} =>
    FirstActive(requests[q].version) = {}
OneFirst == \A v : \A j, k \in FirstActive(v) : j = k

StartInv == ChainInv /\ OneStart /\ StartChecked /\ OneFirst

\* A first job becomes active only when a start inserts it.
LEMMA FirstStep ==
  ASSUME ChainInv, [Next]_vars, NEW v, NEW j \in FirstActive(v)'
  PROVE  \/ j \in FirstActive(v)
         \/ \E q \in Requests, r \in Renders : Inserts(q, j, r) /\ requests[q].version = v
<1>a. /\ Shape /\ RowsInv
      /\ j \in JobIds /\ jobs'[j].status \in Active /\ renders'[jobs'[j].render].version = v
      /\ \A k \in JobIds : k < j => jobs'[k].render # jobs'[j].render
  BY StepHasShape DEF FirstActive, ActiveRenders, ActiveJobs, FirstJob, Version, ChainInv
<1>1. CASE Exists(j)
  <2>1. /\ jobs[j].status \in Active /\ jobs'[j].render = jobs[j].render
        /\ jobs[j].render \in Renders /\ Shown(jobs[j].render)
    BY <1>a, <1>1, JobsGoOn DEF RowsInv, JobHasRender
  <2>2. ASSUME NEW k \in JobIds, k < j PROVE jobs[k].render # jobs[j].render
    <3>1. Exists(k)
      BY <1>a, <1>1, <2>2 DEF RowsInv, IdsInOrder
    <3> QED BY <1>a, <2>1, <2>2, <3>1, JobsGoOn
  <2>3. ASSUME NEW r \in Renders, Shown(r) PROVE renders'[r].version = renders[r].version
    <3>1. CASE SameRows
      BY <3>1 DEF SameRows
    <3>2. ASSUME NEW q \in Requests, NEW n \in JobIds, NEW x \in Renders, Inserts(q, n, x)
          PROVE  renders'[r] = renders[r]
      BY <2>3, <3>2, NextIds DEF Inserts, OtherRows
    <3>3. ASSUME NEW q \in Requests, NEW n \in JobIds, NEW old \in JobIds, Copies(q, n, old)
          PROVE  renders'[r].version = renders[r].version
      BY <3>3, NewRows DEF Copies, OtherRows, Version
    <3> QED BY <1>a, <3>1, <3>2, <3>3, QuietShapes DEF Shape
  <2>4. renders[jobs[j].render].version = v
    BY <1>a, <2>1, <2>3
  <2> QED BY <1>a, <2>1, <2>2, <2>4 DEF FirstActive, ActiveRenders, ActiveJobs, FirstJob, Version
<1>2. CASE ~Exists(j)
  <2>1. ~SameJobs
    BY <1>a, <1>2 DEF SameJobs, Exists, Active
  <2>2. ASSUME NEW q \in Requests, NEW n \in JobIds, NEW old \in JobIds, Copies(q, n, old) PROVE FALSE
    <3>1. j = n
      BY <1>a, <1>2, <2>2 DEF Copies, Exists, Active, Retryable
    <3>2. Exists(old) /\ old < n
      BY <2>2, NextIds DEF Copies, Exists, Retryable
    <3>3. jobs'[old].render = jobs'[n].render
      BY <2>2, NewRows DEF Copies
    <3> QED BY <1>a, <3>1, <3>2, <3>3
  <2>3. ASSUME NEW q \in Requests, NEW n \in JobIds, NEW r \in Renders, Inserts(q, n, r)
        PROVE  n = j /\ requests[q].version = v
    <3>1. n = j
      BY <1>a, <1>2, <2>3 DEF Inserts, Others, Exists, Active
    <3> QED BY <1>a, <2>3, <3>1, NewRows DEF Inserts
  <2> QED BY <1>a, <2>1, <2>2, <2>3, QuietShapes DEF Shape
<1> QED BY <1>1, <1>2

\* Every step keeps StartInv: the version lock lets one start at a time check and insert.
LEMMA StartStep ==
  ASSUME StartInv, [Next]_vars PROVE StartInv'
<1>a. /\ ChainInv /\ ChainInv' /\ OneStart /\ StartChecked /\ OneFirst
      /\ \A q \in Requests : Serves(q)
      /\ \A q, p \in Requests : requests'[q] # requests[q] /\ requests'[p] # requests[p] => q = p
  BY ChainStep, RequestMoves DEF StartInv
<1>1. ASSUME NEW q \in Requests, requests'[q].stage \in StartStages
      PROVE  \/ requests[q].stage \in StartStages /\ requests'[q].version = requests[q].version
             \/ Locks(q)
  BY <1>a, <1>1 DEF Serves, Loads, Advances, Drops, NoRequest, StartStages
<1>2. OneStart'
  <2>1. ASSUME NEW q \in Requests, NEW p \in Requests,
               requests'[q].stage \in StartStages, requests'[p].stage \in StartStages,
               requests'[q].version = requests'[p].version
        PROVE  q = p
    <3>1. ASSUME NEW x \in Requests, NEW y \in Requests, Locks(x), requests[y].stage \in StartStages,
                 requests[y].version = requests'[x].version
          PROVE  FALSE
      BY <3>1 DEF Locks, HasVersion
    <3>2. ASSUME NEW x \in Requests, Locks(x) PROVE requests'[x] # requests[x]
      BY <3>2 DEF Locks
    <3> QED BY <1>a, <1>1, <2>1, <3>1, <3>2 DEF OneStart
  <2> QED BY <2>1 DEF OneStart
<1>3. ASSUME NEW q \in Requests, requests'[q].stage \in {"start_checked", "start_admitted"},
             NEW v, v = requests'[q].version, NEW j \in FirstActive(v)'
      PROVE  FALSE
  <2>1. requests[q].stage \in StartStages /\ requests'[q].version = requests[q].version
    BY <1>3, <1>1 DEF StartStages, Locks
  <2>2. FirstActive(requests[q].version) = {}
    <3>1. CASE requests[q].stage \in {"start_checked", "start_admitted"}
      BY <1>a, <3>1 DEF StartChecked
    <3>2. CASE requests[q].stage = "start_locked"
      BY <1>a, <1>3, <3>2 DEF Serves, Locks, Loads, Advances, Drops, NoRequest, FirstActive
    <3> QED BY <2>1, <3>1, <3>2 DEF StartStages
  <2>3. v = requests[q].version
    BY <1>3, <2>1
  <2>4. j \notin FirstActive(v)
    BY <2>2, <2>3
  <2>5. PICK p \in Requests, r \in Renders : Inserts(p, j, r) /\ requests[p].version = v
    BY <1>a, <1>3, <2>4, FirstStep
  <2>6. p = q
    BY <1>a, <2>1, <2>3, <2>5 DEF Inserts, OneStart, StartStages
  <2> QED BY <1>3, <2>5, <2>6 DEF Inserts, NoRequest
<1>4. StartChecked'
  BY <1>3 DEF StartChecked, FirstActive, ActiveRenders, ActiveJobs, FirstJob, Version
<1>5. ASSUME NEW v, NEW j \in FirstActive(v)', NEW k \in FirstActive(v)' PROVE j = k
  <2>1. ASSUME NEW q \in Requests, NEW r \in Renders, NEW n \in JobIds, Inserts(q, n, r),
               requests[q].version = v
        PROVE  FirstActive(v) = {}
    BY <1>a, <2>1 DEF Inserts, StartChecked
  <2>2. ASSUME NEW q \in Requests, NEW r \in Renders, Inserts(q, j, r),
               NEW p \in Requests, NEW s \in Renders, Inserts(p, k, s)
        PROVE  j = k
    <3>1. /\ j \in JobIds /\ k \in JobIds /\ IsNextId(jobs, j) /\ IsNextId(jobs, k)
      BY <2>2 DEF Inserts
    <3>2. ~(j < k) /\ ~(k < j)
      BY <1>a, <3>1, NextIds
    <3> QED BY <3>1, <3>2, Ids
  <2>3. j \in JobIds /\ k \in JobIds
    BY DEF FirstActive, ActiveRenders, ActiveJobs
  <2> QED BY <1>a, <1>5, <2>1, <2>2, <2>3, FirstStep DEF OneFirst
<1>6. OneFirst'
  BY <1>5 DEF OneFirst
<1> QED BY <1>a, <1>2, <1>4, <1>6 DEF StartInv

\* The initial state satisfies StartInv.
LEMMA StartInit == Init => StartInv
<1>1. Init => OneStart /\ StartChecked
  BY DEF Init, OneStart, StartChecked, NoRequest, StartStages
<1>2. Init => OneFirst
  BY DEF Init, OneFirst, FirstActive, ActiveRenders, ActiveJobs, NobodyJob, Active
<1> QED BY <1>1, <1>2, ChainInit DEF StartInv

\* Of the renders that were started for a version at most one is active,
\* however requests, retries, crashes and recoveries interleave.
THEOREM StartsExcludeEachOther == Spec => []StartsExclude
<1>1. StartInv /\ [Next]_vars => StartInv'
  BY StartStep
<1>2. StartInv => StartsExclude
  <2>1. SUFFICES ASSUME OneFirst, NEW v \in Versions PROVE Cardinality(FirstActive(v)) <= 1
    BY DEF StartInv, StartsExclude, FirstActive
  <2>2. FirstActive(v) = {} \/ \E j : FirstActive(v) = {j}
    BY <2>1 DEF OneFirst
  <2>3. CASE FirstActive(v) = {}
    BY <2>3, FS_EmptySet
  <2>4. ASSUME NEW j, FirstActive(v) = {j} PROVE Cardinality(FirstActive(v)) = 1
    BY <2>4, FS_Singleton
  <2> QED BY <2>2, <2>3, <2>4
<1> QED BY StartInit, <1>1, <1>2, PTL DEF Spec

-----------------------------------------------------------------------------
(* Without retries every render has one job, so starts are all there is *)

NeverRetried == \A j \in JobIds : ~jobs[j].retried
FirstInv == StartInv /\ NoRetries /\ NeverRetried

\* Where no request is a retry, none becomes one and no job is copied.
LEMMA FirstInvStep ==
  ASSUME FirstInv, [Next]_vars, ~Retries PROVE FirstInv'
<1>a. /\ StartInv' /\ ChainInv /\ NoRetries /\ NeverRetried /\ Shape
      /\ \A q \in Requests : Serves(q)
  BY StartStep, RequestMoves, StepHasShape DEF FirstInv, StartInv
<1>1. NoRetries'
  BY <1>a DEF NoRetries, Serves, Locks, Loads, Advances, Drops, NoRequest, RetryStages
<1>2. ASSUME NEW j \in JobIds PROVE ~jobs'[j].retried
  <2>1. ASSUME NEW q \in Requests, NEW n \in JobIds, NEW old \in JobIds, Copies(q, n, old)
        PROVE  FALSE
    BY <1>a, <2>1 DEF Copies, NoRetries, RetryStages
  <2>2. ASSUME NEW q \in Requests, NEW n \in JobIds, NEW r \in Renders, Inserts(q, n, r)
        PROVE  ~jobs'[j].retried
    BY <1>a, <2>2, NewRows DEF Inserts, Others, NeverRetried
  <2> QED BY <1>a, <2>1, <2>2 DEF Shape, Still, Turns, Ends, Paints, Others, NeverRetried
<1> QED BY <1>a, <1>1, <1>2 DEF FirstInv, NeverRetried

\* The only job of a render is its first.
LEMMA AllAreFirst ==
  ASSUME FirstInv, NEW v, NEW j \in ActiveRenders(v) PROVE FirstJob(j)
<1>1. /\ RowsInv /\ NeverRetried /\ j \in JobIds /\ Exists(j)
  BY DEF FirstInv, StartInv, ChainInv, ActiveRenders, ActiveJobs, Active, Exists
<1>2. ASSUME NEW k \in JobIds, k < j, jobs[k].render = jobs[j].render PROVE FALSE
  <2>1. Exists(k)
    BY <1>1, <1>2 DEF RowsInv, IdsInOrder
  <2>2. k = j
    BY <1>1, <1>2, <2>1 DEF RowsInv, LastJob, NeverRetried
  <2> QED BY <1>2, <2>2, Ids
<1> QED BY <1>2 DEF FirstJob

\* "One active render per version" holds of every history without retries of
\* renders: the retry alone, which takes no version lock, breaks it (the run
\* RenderJobsRetryRace).
THEOREM OneRenderWithoutRetries ==
  ASSUME ~Retries PROVE Spec => []OneActiveRender
<1>1. Init => FirstInv
  <2>1. Init => NoRetries /\ NeverRetried
    BY DEF Init, NoRequest, NoRetries, RetryStages, NeverRetried, NobodyJob
  <2> QED BY <2>1, StartInit DEF FirstInv
<1>2. FirstInv /\ [Next]_vars => FirstInv'
  BY FirstInvStep
<1>3. FirstInv => OneActiveRender
  <2>1. SUFFICES ASSUME FirstInv, NEW v \in Versions PROVE Cardinality(ActiveRenders(v)) <= 1
    BY DEF OneActiveRender
  <2>2. \A j, k \in ActiveRenders(v) : j = k
    BY <2>1, AllAreFirst DEF FirstInv, StartInv, OneFirst, FirstActive
  <2>3. ActiveRenders(v) = {} \/ \E j : ActiveRenders(v) = {j}
    BY <2>2
  <2>4. CASE ActiveRenders(v) = {}
    BY <2>4, FS_EmptySet
  <2>5. ASSUME NEW j, ActiveRenders(v) = {j} PROVE Cardinality(ActiveRenders(v)) = 1
    BY <2>5, FS_Singleton
  <2> QED BY <2>3, <2>4, <2>5
<1> QED BY <1>1, <1>2, <1>3, PTL DEF Spec

=============================================================================
