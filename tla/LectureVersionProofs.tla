------------------------ MODULE LectureVersionProofs ------------------------
(***************************************************************************)
(* Proofs about a lecture version (module LectureVersion): what its        *)
(* handlers, reviews, builds and edits keep, for every number of requests, *)
(* jobs, attempts and saves.                                               *)
(***************************************************************************)
EXTENDS LectureVersion, TLAPS

-----------------------------------------------------------------------------
(* The row types TypeOK is made of *)

VersionType ==
  [status : Transient \cup {"ready", "failed"}, revision : Nat \ {0},
   text : Nat, built : Nat, film : Nat, meta : MetaType]

HandlerType ==
  [at : Working \cup {"idle", "load", "ended"}, job : JobIds \cup {0},
   revision : Nat, text : Nat, built : Nat, meta : MetaType,
   outcome : {"none", "succeeded", "skipped", "source_review", "plan_review",
              "retry", "failed", "cancelled"}]

RequestType ==
  [op : {"none", "save_plan", "save_source", "approve", "change"},
   revision : Nat, meta : MetaType, job : JobIds \cup {0}]

\* The job whose handler runs is running.
HandlerRuns ==
  handler.at # "idle" => handler.job \in JobIds /\ jobs[handler.job].status = "running"

\* At most one job of the version is active.
OneActive == \A j, k \in JobIds :
  jobs[j].status \in Active /\ jobs[k].status \in Active => j = k

\* A queued job has an attempt left, and so has one that will be retried.
AttemptsLeft ==
  /\ \A j \in JobIds : jobs[j].status = "queued" => jobs[j].attempts < JobMaxAttempts
  /\ handler.outcome = "retry" =>
       handler.at = "ended" /\ jobs[handler.job].attempts < JobMaxAttempts

\* An approval knows the job it approves.
ApprovalsKnow == \A q \in Requests :
  requests[q].op = "approve" => requests[q].job \in JobIds

\* Every job that exists was enqueued for something.
KindsKnown == \A j \in JobIds : jobs[j].status # "absent" => jobs[j].kind \in Kinds

TypeInv ==
  TypeOK /\ HandlerRuns /\ OneActive /\ AttemptsLeft /\ ApprovalsKnow /\ KindsKnown

-----------------------------------------------------------------------------
(* Lemmas about the rows *)

\* The ways the code changes the metadata of a version leave well-typed metadata.
LEMMA MetaRows ==
  ASSUME NEW m \in MetaType
  PROVE  /\ NewMeta \in MetaType
         /\ NoPlan \in PlanType
         /\ [m EXCEPT !.stage = "none"] \in MetaType
         /\ [m EXCEPT !.stage = "source"] \in MetaType
         /\ \A p \in PlanType : [m EXCEPT !.plan = p] \in MetaType
         /\ \A n \in Edits : [m EXCEPT !.notes = n] \in MetaType
         /\ \A e \in Edits : [m EXCEPT !.plan.edit = e] \in MetaType
         /\ \A j \in JobIds, r \in Nat :
              /\ [m EXCEPT !.writer = [job |-> j, revision |-> r]] \in MetaType
              /\ [m EXCEPT !.writer = [job |-> j, revision |-> r], !.plan = NoPlan] \in MetaType
  <1>1. 0 \in Edits /\ Edits \subseteq Nat
    BY ConstantsAssumption
  <1>2. NoPlan \in PlanType
    BY DEF PlanType
  <1>3. NewMeta \in MetaType
    BY <1>1, <1>2 DEF NewMeta, NoWriter, MetaType
  <1>4. \A e \in Edits : [m EXCEPT !.plan.edit = e] \in MetaType
    <2> SUFFICES ASSUME NEW e \in Edits
                 PROVE  [m EXCEPT !.plan.edit = e] \in MetaType
      OBVIOUS
    <2>1. m.plan \in [notes : Edits, edit : Edits] \cup {NoPlan}
      BY DEF MetaType, PlanType
    <2>2. [m.plan EXCEPT !.edit = e] \in [notes : Edits, edit : Edits]
      BY <2>1, <1>1 DEF NoPlan
    <2>3. [m EXCEPT !.plan.edit = e] = [m EXCEPT !.plan = [m.plan EXCEPT !.edit = e]]
      OBVIOUS
    <2> QED  BY <2>2, <2>3 DEF MetaType, PlanType
  <1> QED  BY <1>1, <1>2, <1>3, <1>4 DEF MetaType

\* Ending a job leaves a well-typed row, skipped or not.
LEMMA JobRows ==
  ASSUME NEW r \in JobType, NEW s \in {"succeeded", "failed", "cancelled"},
         NEW row, row = [r EXCEPT !.status = s, !.attempts = 0, !.cancel = FALSE]
  PROVE  /\ row \in JobType
         /\ [row EXCEPT !.skipped = TRUE] \in JobType
  <1>1. 0 \in 0..JobMaxAttempts
    BY ConstantsAssumption
  <1> QED  BY <1>1 DEF JobType, Active, Retryable

NewRow(row, kind, base, resume) ==
  /\ row \in JobType
  /\ row.kind = kind /\ row.base = base /\ row.resume = resume
  /\ row.status = "queued" /\ row.attempts = 0
  /\ ~row.retried /\ ~row.skipped

\* What enqueue inserts: a queued row of the given kind, base and review, first or retry.
LEMMA NewJobRow ==
  ASSUME NEW kind \in Kinds, NEW base \in Nat,
         NEW resume \in {"none", "source_review", "plan_review"}, NEW from \in JobIds \cup {0}
  PROVE  /\ NewRow(NewJob(kind, base, resume), kind, base, resume)
         /\ NewRow([NewJob(kind, base, resume) EXCEPT !.retryOf = from], kind, base, resume)
  <1>1. 0 \in 0..JobMaxAttempts
    BY ConstantsAssumption
  <1>2. NoJob \in JobType
    BY <1>1 DEF NoJob, JobType
  <1>3. NewJob(kind, base, resume) \in JobType
    BY <1>2 DEF NewJob, JobType, Active
  <1>4. NewRow(NewJob(kind, base, resume), kind, base, resume)
    BY <1>3 DEF NewRow, NewJob, NoJob
  <1> HIDE DEF NewJob
  <1> QED  BY <1>4 DEF NewRow, JobType

\* No handler and no request are well typed.
LEMMA NoRows == NoHandler \in HandlerType /\ NoRequest \in RequestType
  <1>1. NewMeta \in MetaType
    BY ConstantsAssumption DEF NewMeta, NoWriter, MetaType, PlanType
  <1> QED  BY <1>1 DEF NoHandler, NoRequest, HandlerType, RequestType, Working

-----------------------------------------------------------------------------
(* What a step does to the jobs and to the version *)

\* What job j was enqueued for stays.
SameTask(j) ==
  /\ jobs'[j].kind = jobs[j].kind /\ jobs'[j].base = jobs[j].base
  /\ jobs'[j].resume = jobs[j].resume

OthersKept(j) == \A k \in JobIds : k # j => jobs'[k] = jobs[k]

\* The active job j moves on.
Moves(j) ==
  /\ j \in JobIds /\ jobs[j].status \in Active
  /\ jobs' \in [JobIds -> JobType] /\ OthersKept(j) /\ SameTask(j)
  /\ jobs'[j].retried = jobs[j].retried /\ jobs'[j].skipped = jobs[j].skipped
  /\ jobs'[j].status \in Active
  /\ jobs'[j].status = "queued" => jobs'[j].attempts < JobMaxAttempts
  /\ jobs'[j].status = "awaiting_review" =>
       handler.job = j /\ handler.outcome \in {"source_review", "plan_review"}

\* The active job j is over; it was skipped only if its handler said so.
Closes(j) ==
  /\ j \in JobIds /\ jobs[j].status \in Active
  /\ jobs' \in [JobIds -> JobType] /\ OthersKept(j) /\ SameTask(j)
  /\ jobs'[j].retried = jobs[j].retried
  /\ jobs'[j].status \in Retryable \cup {"succeeded"}
  /\ jobs'[j].skipped =>
       \/ jobs[j].skipped
       \/ /\ jobs'[j].status = "succeeded" /\ handler.at = "ended"
          /\ handler.outcome = "skipped" /\ handler.job = j

\* Only the status of the version changes, and not to a review.
StatusSettles ==
  /\ version' \in VersionType
  /\ version' = version \/ version'.status \in {"ready", "failed"}
  /\ version'.revision = version.revision /\ version'.text = version.text
  /\ version'.built = version.built /\ version'.film = version.film
  /\ version'.meta = version.meta

\* The queue moves job j on or ends it, and the version with it.
Turns(j) ==
  /\ Moves(j) \/ Closes(j)
  /\ StatusSettles
  /\ UNCHANGED <<requests, asked, approved, scripts>>

\* Ending a job is a Closes step; only a handler that skipped marks the job as skipped.
LEMMA OverCloses ==
  ASSUME TypeInv, NEW j \in JobIds, jobs[j].status \in Active,
         NEW s \in {"succeeded", "failed", "cancelled"},
         \/ jobs' = [jobs EXCEPT ![j] = Over(j, s)]
         \/ /\ jobs' = [jobs EXCEPT ![j] = [Over(j, "succeeded") EXCEPT !.skipped = TRUE]]
            /\ handler.outcome = "skipped" /\ handler.job = j /\ handler.at = "ended"
  PROVE  Closes(j)
<1>1. jobs \in [JobIds -> JobType] /\ jobs[j] \in JobType
  BY DEF TypeInv, TypeOK
<1>2. CASE jobs' = [jobs EXCEPT ![j] = Over(j, s)]
  <2> DEFINE row == Over(j, s)
  <2>1. row \in JobType
    BY <1>1, JobRows DEF Over
  <2>2. /\ row.kind = jobs[j].kind /\ row.base = jobs[j].base /\ row.resume = jobs[j].resume
        /\ row.retried = jobs[j].retried /\ row.skipped = jobs[j].skipped /\ row.status = s
    BY <1>1 DEF Over, JobType
  <2>3. jobs' = [jobs EXCEPT ![j] = row]
    BY <1>2
  <2> HIDE DEF row
  <2> QED  BY <1>1, <1>2, <2>1, <2>2, <2>3 DEF Closes, OthersKept, SameTask, Retryable
<1>3. CASE /\ jobs' = [jobs EXCEPT ![j] = [Over(j, "succeeded") EXCEPT !.skipped = TRUE]]
           /\ handler.outcome = "skipped" /\ handler.job = j /\ handler.at = "ended"
  <2> DEFINE row == [Over(j, "succeeded") EXCEPT !.skipped = TRUE]
  <2>1. row \in JobType
    BY <1>1, JobRows DEF Over
  <2>2. /\ row.kind = jobs[j].kind /\ row.base = jobs[j].base /\ row.resume = jobs[j].resume
        /\ row.retried = jobs[j].retried /\ row.status = "succeeded"
    BY <1>1 DEF Over, JobType
  <2>3. jobs' = [jobs EXCEPT ![j] = row]
    BY <1>3
  <2> HIDE DEF row
  <2> QED  BY <1>1, <1>3, <2>1, <2>2, <2>3 DEF Closes, OthersKept, SameTask, Retryable
<1> QED  BY <1>2, <1>3

\* Replacing the row of an active job by an active row of the same task is a Moves step.
LEMMA MoveRow ==
  ASSUME TypeInv, NEW j \in JobIds, jobs[j].status \in Active,
         NEW row \in JobType, jobs' = [jobs EXCEPT ![j] = row],
         row.kind = jobs[j].kind, row.base = jobs[j].base, row.resume = jobs[j].resume,
         row.retried = jobs[j].retried, row.skipped = jobs[j].skipped,
         row.status \in Active, row.status = "queued" => row.attempts < JobMaxAttempts,
         row.status = "awaiting_review" =>
           handler.job = j /\ handler.outcome \in {"source_review", "plan_review"}
  PROVE  Moves(j)
BY DEF TypeInv, TypeOK, Moves, OthersKept, SameTask

\* settle_version changes nothing of a version but its status, and not to a review.
LEMMA SettledSettles ==
  ASSUME TypeInv, NEW j \in JobIds, version' = Settled(j) \/ version' = version
  PROVE  StatusSettles
<1>1. version \in VersionType
  BY DEF TypeInv, TypeOK, VersionType
<1>2. CASE version' = version
  BY <1>1, <1>2 DEF StatusSettles
<1>3. CASE \E s \in {"ready", "failed"} : version' = [version EXCEPT !.status = s]
  BY <1>1, <1>3 DEF StatusSettles, VersionType
<1> QED  BY <1>2, <1>3 DEF Settled

\* A job that is claimed moves on.
LEMMA ClaimTurns ==
  ASSUME TypeInv, NEW j \in JobIds, Claim(j)
  PROVE  Turns(j) /\ Moves(j) /\ jobs'[j].status = "running"
<1>1. jobs \in [JobIds -> JobType] /\ jobs[j] \in JobType /\ jobs[j].status = "queued"
  BY DEF TypeInv, TypeOK, Claim
<1>2. jobs[j].attempts + 1 \in 0..JobMaxAttempts
  BY <1>1, ConstantsAssumption DEF TypeInv, AttemptsLeft, JobType
<1> DEFINE row == [jobs[j] EXCEPT !.status = "running", !.attempts = jobs[j].attempts + 1]
<1>3. row \in JobType
  BY <1>1, <1>2 DEF JobType, Active
<1>4. /\ row.kind = jobs[j].kind /\ row.base = jobs[j].base /\ row.resume = jobs[j].resume
      /\ row.retried = jobs[j].retried /\ row.skipped = jobs[j].skipped /\ row.status = "running"
  BY <1>1 DEF JobType
<1>5. jobs' = [jobs EXCEPT ![j] = row]
  BY <1>1 DEF Claim, JobType
<1> HIDE DEF row
<1>6. Moves(j)
  BY <1>1, <1>3, <1>4, <1>5, MoveRow DEF Active
<1>7. jobs'[j].status = "running"
  BY <1>1, <1>4, <1>5
<1>8. StatusSettles
  BY SettledSettles DEF Claim
<1> QED  BY <1>6, <1>7, <1>8 DEF Turns, Claim

\* Job j goes back to the queue, waits for a review or is asked to stop.
LEMMA ChangeMoves ==
  ASSUME TypeInv, NEW j \in JobIds, jobs[j].status = "running",
         NEW o \in {"source_review", "plan_review"},
         \/ jobs[j].attempts < JobMaxAttempts /\ jobs' = [jobs EXCEPT ![j].status = "queued"]
         \/ jobs' = [jobs EXCEPT ![j].cancel = TRUE]
         \/ /\ jobs' = [jobs EXCEPT ![j].status = "awaiting_review", ![j].result = o]
            /\ handler.job = j /\ handler.outcome = o
  PROVE  Moves(j)
<1>1. jobs \in [JobIds -> JobType] /\ jobs[j] \in JobType
  BY DEF TypeInv, TypeOK
<1>2. CASE jobs[j].attempts < JobMaxAttempts /\ jobs' = [jobs EXCEPT ![j].status = "queued"]
  <2> DEFINE row == [jobs[j] EXCEPT !.status = "queued"]
  <2>1. row \in JobType
    BY <1>1 DEF JobType, Active
  <2>2. /\ row.kind = jobs[j].kind /\ row.base = jobs[j].base /\ row.resume = jobs[j].resume
        /\ row.retried = jobs[j].retried /\ row.skipped = jobs[j].skipped
        /\ row.status = "queued" /\ row.attempts = jobs[j].attempts
    BY <1>1 DEF JobType
  <2>3. jobs' = [jobs EXCEPT ![j] = row]
    BY <1>1, <1>2
  <2> HIDE DEF row
  <2> QED  BY <1>2, <2>1, <2>2, <2>3, MoveRow DEF Active
<1>3. CASE jobs' = [jobs EXCEPT ![j].cancel = TRUE]
  <2> DEFINE row == [jobs[j] EXCEPT !.cancel = TRUE]
  <2>1. row \in JobType
    BY <1>1 DEF JobType, Active
  <2>2. /\ row.kind = jobs[j].kind /\ row.base = jobs[j].base /\ row.resume = jobs[j].resume
        /\ row.retried = jobs[j].retried /\ row.skipped = jobs[j].skipped
        /\ row.status = "running"
    BY <1>1 DEF JobType
  <2>3. jobs' = [jobs EXCEPT ![j] = row]
    BY <1>1, <1>3
  <2> HIDE DEF row
  <2> QED  BY <2>1, <2>2, <2>3, MoveRow DEF Active
<1>4. CASE /\ jobs' = [jobs EXCEPT ![j].status = "awaiting_review", ![j].result = o]
           /\ handler.job = j /\ handler.outcome = o
  <2> DEFINE row == [jobs[j] EXCEPT !.status = "awaiting_review", !.result = o]
  <2>1. row \in JobType
    BY <1>1 DEF JobType, Active
  <2>2. /\ row.kind = jobs[j].kind /\ row.base = jobs[j].base /\ row.resume = jobs[j].resume
        /\ row.retried = jobs[j].retried /\ row.skipped = jobs[j].skipped
        /\ row.status = "awaiting_review"
    BY <1>1 DEF JobType
  <2>3. jobs' = [jobs EXCEPT ![j] = row]
    BY <1>1, <1>4
  <2> HIDE DEF row
  <2> QED  BY <1>4, <2>1, <2>2, <2>3, MoveRow DEF Active
<1> QED  BY <1>2, <1>3, <1>4

\* The reaper or a restarted worker gives job j back or ends it.
LEMMA RecoverTurns ==
  ASSUME TypeInv, NEW j \in JobIds, Recover(j)
  PROVE  Turns(j) /\ handler' = handler /\ handler.job # j
<1>1. jobs[j] \in JobType /\ jobs[j].status = "running" /\ jobs[j].status \in Active
  BY DEF TypeInv, TypeOK, Recover, Active
<1>2. Moves(j) \/ Closes(j)
  <2>1. CASE \E s \in {"cancelled", "failed"} : End(j, s)
    BY <1>1, <2>1, OverCloses DEF End
  <2>2. CASE /\ ~(jobs[j].attempts >= JobMaxAttempts)
             /\ jobs' = [jobs EXCEPT ![j].status = "queued"]
    <3>1. jobs[j].attempts < JobMaxAttempts
      BY <1>1, <2>2, ConstantsAssumption DEF JobType
    <3> QED  BY <1>1, <2>2, <3>1, ChangeMoves
  <2> QED  BY <2>1, <2>2 DEF Recover
<1>3. StatusSettles
  BY SettledSettles DEF Recover, End
<1> QED  BY <1>2, <1>3 DEF Turns, Recover

\* A teacher cancels job j; the one that runs only hears of it.
LEMMA CancelTurns ==
  ASSUME TypeInv, NEW j \in JobIds, RequestCancel(j)
  PROVE  /\ Turns(j) /\ handler' = handler
         /\ jobs[j].status = "running" =>
              /\ Moves(j)
              /\ jobs'[j].status = "running" /\ jobs'[j].attempts = jobs[j].attempts
<1>1. jobs \in [JobIds -> JobType] /\ jobs[j] \in JobType /\ jobs[j].status \in Active
  BY DEF TypeInv, TypeOK, RequestCancel, Active
<1>2. StatusSettles
  BY SettledSettles DEF RequestCancel, End
<1>3. CASE jobs[j].status \in {"queued", "awaiting_review"} /\ End(j, "cancelled")
  <2>1. Closes(j)
    BY <1>1, <1>3, OverCloses DEF End
  <2> QED  BY <1>2, <1>3, <2>1 DEF Turns, RequestCancel
<1>4. CASE jobs[j].status = "running" /\ jobs' = [jobs EXCEPT ![j].cancel = TRUE]
  <2>1. Moves(j)
    BY <1>4, ChangeMoves
  <2>2. jobs'[j].status = "running" /\ jobs'[j].attempts = jobs[j].attempts
    BY <1>1, <1>4 DEF JobType
  <2> QED  BY <1>2, <2>1, <2>2 DEF Turns, RequestCancel
<1> QED  BY <1>3, <1>4 DEF RequestCancel

\* The worker records what the handler returned or raised.
LEMMA PersistTurns ==
  ASSUME TypeInv, Persist
  PROVE  Turns(handler.job) /\ handler' = NoHandler /\ handler.at = "ended"
<1> DEFINE j == handler.job
<1>1. /\ j \in JobIds /\ jobs[j].status = "running" /\ jobs[j].status \in Active
      /\ handler.at = "ended"
  BY DEF TypeInv, HandlerRuns, Persist, Active
<1>2. Moves(j) \/ Closes(j)
  <2>1. CASE handler.outcome \in {"succeeded", "failed", "cancelled"} /\ End(j, handler.outcome)
    BY <1>1, <2>1, OverCloses DEF End
  <2>2. CASE /\ handler.outcome = "skipped"
             /\ jobs' = [jobs EXCEPT ![j] = [Over(j, "succeeded") EXCEPT !.skipped = TRUE]]
    BY <1>1, <2>2, OverCloses
  <2>3. CASE End(j, "cancelled")
    BY <1>1, <2>3, OverCloses DEF End
  <2>4. CASE /\ handler.outcome \in {"source_review", "plan_review"}
             /\ jobs' = [jobs EXCEPT ![j].status = "awaiting_review", ![j].result = handler.outcome]
    BY <1>1, <2>4, ChangeMoves
  <2>5. CASE handler.outcome = "retry" /\ jobs' = [jobs EXCEPT ![j].status = "queued"]
    BY <1>1, <2>5, ChangeMoves DEF TypeInv, AttemptsLeft
  <2> QED  BY <2>1, <2>2, <2>3, <2>4, <2>5 DEF Persist
<1>3. StatusSettles
  BY <1>1, SettledSettles DEF Persist, End
<1> QED  BY <1>1, <1>2, <1>3 DEF Turns, Persist

-----------------------------------------------------------------------------
(* New jobs *)

\* Job n is enqueued, after the job "old" that it continues or retries.
Adds(n, kind, base, resume, old) ==
  /\ n \in JobIds /\ jobs[n].status = "absent"
  /\ jobs' \in [JobIds -> JobType]
  /\ NewRow(jobs'[n], kind, base, resume)
  /\ kind \in Kinds /\ base \in Nat
  /\ \A k \in JobIds : k # n /\ k # old => jobs'[k] = jobs[k]
  /\ \A k \in JobIds : jobs[k].status \in Active => k = old
  /\ old \in JobIds =>
       /\ old # n /\ SameTask(old) /\ jobs'[old].skipped = jobs[old].skipped
       /\ \/ /\ jobs[old].status \in Retryable /\ ~jobs[old].retried
             /\ jobs'[old].status = jobs[old].status /\ jobs'[old].retried
             /\ kind = jobs[old].kind /\ base = jobs[old].base /\ resume = jobs[old].resume
          \/ /\ jobs[old].status = "awaiting_review" /\ jobs'[old].status = "succeeded"
             /\ jobs'[old].retried = jobs[old].retried

\* A job is retried only when no job of the version is active.
LEMMA RetryAdds ==
  ASSUME TypeInv, NEW j \in JobIds, RetryJob(j)
  PROVE  \E n \in JobIds : Adds(n, jobs[j].kind, jobs[j].base, jobs[j].resume, j)
<1>1. /\ jobs \in [JobIds -> JobType] /\ jobs[j] \in JobType
      /\ jobs[j].status \in Retryable /\ ~jobs[j].retried
  BY DEF TypeInv, TypeOK, RetryJob
<1>2. jobs[j].kind \in Kinds
  BY <1>1 DEF TypeInv, KindsKnown, Retryable
<1> DEFINE kind == jobs[j].kind
           base == jobs[j].base
           resume == jobs[j].resume
           old == [jobs[j] EXCEPT !.retried = TRUE]
           new == [NewJob(kind, base, resume) EXCEPT !.retryOf = j]
<1>3. PICK n \in JobIds : /\ IsNextId(n)
                          /\ jobs' = [jobs EXCEPT ![j].retried = TRUE, ![n] = new]
  BY DEF RetryJob
<1>4. NewRow(new, kind, base, resume) /\ new \in JobType
  BY <1>1, <1>2, NewJobRow DEF JobType, NewRow
<1>5. /\ old \in JobType /\ old.retried /\ old.status = jobs[j].status /\ old.kind = kind
      /\ old.base = base /\ old.resume = resume /\ old.skipped = jobs[j].skipped
  BY <1>1 DEF JobType
<1>6. n # j /\ jobs[n].status = "absent"
  BY <1>1, <1>3 DEF IsNextId, Retryable
<1>7. jobs' = [jobs EXCEPT ![j] = old, ![n] = new]
  BY <1>1, <1>3, <1>6
<1>8. \A k \in JobIds : jobs[k].status \in Active => FALSE
  BY DEF RetryJob, ActiveJobs
<1>9. base \in Nat
  BY <1>1 DEF JobType
<1> HIDE DEF old, new
<1>10. jobs' \in [JobIds -> JobType] /\ jobs'[j] = old /\ jobs'[n] = new
  BY <1>1, <1>4, <1>5, <1>6, <1>7
<1>11. \A k \in JobIds : k # n /\ k # j => jobs'[k] = jobs[k]
  BY <1>1, <1>7
<1>12. SameTask(j)
  BY <1>5, <1>10 DEF SameTask
<1> QED  BY <1>1, <1>2, <1>4, <1>5, <1>6, <1>8, <1>9, <1>10, <1>11, <1>12 DEF Adds

\* A job is enqueued, and the one it continues is over.
LEMMA EnqueueAdds ==
  ASSUME TypeInv, NEW kind \in Kinds, NEW base \in Nat,
         NEW resume \in {"none", "source_review", "plan_review"}, NEW ended \in JobIds \cup {0},
         Enqueue(kind, base, resume, ended),
         \A k \in JobIds : jobs[k].status \in Active => k = ended,
         ended \in JobIds => jobs[ended].status = "awaiting_review"
  PROVE  \E n \in JobIds : Adds(n, kind, base, resume, ended)
<1>1. jobs \in [JobIds -> JobType] /\ 0 \notin JobIds
  BY DEF TypeInv, TypeOK, JobIds
<1> DEFINE new == NewJob(kind, base, resume)
           old == Over(ended, "succeeded")
<1>2. PICK n \in JobIds : /\ IsNextId(n)
                          /\ jobs' = [j \in JobIds |-> IF j = n THEN new
                                                       ELSE IF j = ended THEN old ELSE jobs[j]]
  BY DEF Enqueue
<1>3. NewRow(new, kind, base, resume) /\ new \in JobType
  <2>1. NewRow(new, kind, base, resume)
    BY NewJobRow
  <2> QED  BY <2>1 DEF NewRow
<1>4. ended \in JobIds =>
        /\ old \in JobType /\ old.retried = jobs[ended].retried /\ old.status = "succeeded"
        /\ old.kind = jobs[ended].kind /\ old.base = jobs[ended].base
        /\ old.resume = jobs[ended].resume /\ old.skipped = jobs[ended].skipped
  <2> SUFFICES ASSUME ended \in JobIds
               PROVE  /\ old \in JobType /\ old.retried = jobs[ended].retried /\ old.status = "succeeded"
                      /\ old.kind = jobs[ended].kind /\ old.base = jobs[ended].base
                      /\ old.resume = jobs[ended].resume /\ old.skipped = jobs[ended].skipped
    OBVIOUS
  <2>1. jobs[ended] \in JobType
    BY <1>1
  <2>2. old \in JobType
    BY <2>1, JobRows DEF Over
  <2> QED  BY <2>1, <2>2 DEF Over, JobType
<1>5. jobs[n].status = "absent" /\ (ended \in JobIds => n # ended)
  BY <1>2 DEF IsNextId
<1> HIDE DEF new, old
<1>6. /\ jobs'[n] = new /\ (ended \in JobIds => jobs'[ended] = old)
      /\ \A k \in JobIds : k # n /\ k # ended => jobs'[k] = jobs[k]
  BY <1>2, <1>5
<1>7. jobs' \in [JobIds -> JobType]
  BY <1>1, <1>2, <1>3, <1>4
<1>8. ended \in JobIds => SameTask(ended)
  BY <1>4, <1>6 DEF SameTask
<1> QED  BY <1>3, <1>4, <1>5, <1>6, <1>7, <1>8 DEF Adds

-----------------------------------------------------------------------------
(* What a step of the handler does: it keeps its job, and its rows their types *)

HandlerStays ==
  /\ version' \in VersionType
  /\ handler' \in HandlerType /\ handler'.job = handler.job
  /\ handler.at # "idle" /\ handler'.at # "idle"
  /\ handler'.outcome = "retry" =>
       handler'.at = "ended" /\ jobs[handler.job].attempts < JobMaxAttempts
  /\ UNCHANGED <<jobs, requests, asked, approved>>

\* A handler that ends keeps its job and has the outcome it ended with.
LEMMA EndsHandler ==
  ASSUME TypeInv, NEW o \in {"succeeded", "skipped", "source_review", "plan_review",
                             "retry", "failed", "cancelled"},
         Ends(o)
  PROVE  /\ handler' \in HandlerType /\ handler'.job = handler.job
         /\ handler'.at = "ended" /\ handler'.outcome = o
<1>1. handler \in HandlerType
  BY DEF TypeInv, TypeOK, HandlerType
<1> QED  BY <1>1, NoRows DEF Ends, HandlerType, NoHandler

\* A row of the version with another status, metadata or content.
LEMMA VersionRows ==
  ASSUME NEW v \in VersionType
  PROVE  /\ \A s \in Transient \cup {"ready", "failed"} :
              /\ [v EXCEPT !.status = s] \in VersionType
              /\ \A m \in MetaType : [v EXCEPT !.status = s, !.meta = m] \in VersionType
         /\ \A m \in MetaType : [v EXCEPT !.meta = m] \in VersionType
         /\ [v EXCEPT !.revision = v.revision + 1, !.text = v.text + 1] \in VersionType
<1>1. v.revision + 1 \in Nat \ {0} /\ v.text + 1 \in Nat
  BY DEF VersionType
<1> QED  BY <1>1 DEF VersionType

\* Reading the snapshot keeps the types.
LEMMA LoadTypes == TypeInv /\ Load => HandlerStays
<1> SUFFICES ASSUME TypeInv, Load PROVE HandlerStays
  OBVIOUS
<1>1. version \in VersionType /\ handler \in HandlerType /\ handler.at = "load"
  BY DEF TypeInv, TypeOK, HandlerType, VersionType, Load
<1>2. handler.outcome # "retry"
  BY <1>1 DEF TypeInv, AttemptsLeft
<1>3. CASE \E at \in {"begin", "resume"} :
             handler' = [handler EXCEPT !.at = at,
                           !.revision = version.revision, !.text = version.text,
                           !.built = version.built, !.meta = version.meta]
  <2>1. PICK at \in {"begin", "resume"} :
             handler' = [handler EXCEPT !.at = at,
                           !.revision = version.revision, !.text = version.text,
                           !.built = version.built, !.meta = version.meta]
    BY <1>3
  <2>2. /\ version.revision \in Nat /\ version.text \in Nat /\ version.built \in Nat
        /\ version.meta \in MetaType
    BY <1>1 DEF VersionType
  <2>3. handler' \in HandlerType /\ handler'.at = at /\ handler'.job = handler.job
        /\ handler'.outcome = handler.outcome
    BY <1>1, <2>1, <2>2 DEF HandlerType, Working
  <2> QED  BY <1>1, <1>2, <2>3 DEF HandlerStays, Load
<1>4. CASE Ends("skipped")
  BY <1>1, <1>4, EndsHandler DEF HandlerStays, Load
<1> QED  BY <1>3, <1>4 DEF Load

\* The first write of a handler keeps the types.
LEMMA BeginTypes == TypeInv /\ Begin => HandlerStays
<1> SUFFICES ASSUME TypeInv, Begin PROVE HandlerStays
  OBVIOUS
<1>1. version \in VersionType /\ handler \in HandlerType /\ handler.at = "begin"
  BY DEF TypeInv, TypeOK, HandlerType, VersionType, Begin
<1>2. handler.outcome # "retry"
  BY <1>1 DEF TypeInv, AttemptsLeft
<1> DEFINE meta == IF ChecksSource THEN [handler.meta EXCEPT !.stage = "none"] ELSE handler.meta
<1>3. handler.meta \in MetaType /\ version.meta \in MetaType
  BY <1>1 DEF HandlerType, VersionType
<1>4. meta \in MetaType
  BY <1>3, MetaRows
<1>5. CASE ~Current
  BY <1>1, <1>5, EndsHandler DEF HandlerStays, Begin, Cas
<1>6. CASE Current
  <2>1. PICK status \in {"building", "generating"}, m \in MetaType, at \in {"build", "plan", "script"} :
          /\ version' = [version EXCEPT !.status = status, !.meta = m]
          /\ handler' = [handler EXCEPT !.at = at, !.meta = meta]
    BY <1>3, <1>4, <1>6 DEF Begin, Cas
  <2>2. version' \in VersionType
    BY <1>1, <2>1, VersionRows DEF Transient
  <2> HIDE DEF meta
  <2>3. /\ handler' \in HandlerType /\ handler'.at = at
        /\ handler'.job = handler.job /\ handler'.outcome = handler.outcome
    BY <1>1, <1>4, <2>1 DEF HandlerType, Working
  <2> QED  BY <1>1, <1>2, <2>2, <2>3 DEF HandlerStays, Begin
<1> QED  BY <1>5, <1>6

\* Resuming a build keeps the types.
LEMMA ResumeTypes == TypeInv /\ ResumeBuild => HandlerStays
<1> SUFFICES ASSUME TypeInv, ResumeBuild PROVE HandlerStays
  OBVIOUS
<1>1. version \in VersionType /\ handler \in HandlerType /\ handler.at = "resume"
  BY DEF TypeInv, TypeOK, HandlerType, VersionType, ResumeBuild
<1>2. handler.outcome # "retry"
  BY <1>1 DEF TypeInv, AttemptsLeft
<1>3. CASE ~Current
  BY <1>1, <1>3, EndsHandler DEF HandlerStays, ResumeBuild, Cas
<1>4. CASE Current
  <2>1. version' \in VersionType
    BY <1>1, <1>4, VersionRows DEF ResumeBuild, Cas, Transient
  <2>2. /\ handler' \in HandlerType /\ handler'.at = "build"
        /\ handler'.job = handler.job /\ handler'.outcome = handler.outcome
    BY <1>1, <1>4 DEF ResumeBuild, Cas, To, HandlerType, Working
  <2> QED  BY <1>1, <1>2, <2>1, <2>2 DEF HandlerStays, ResumeBuild
<1> QED  BY <1>3, <1>4

\* Planning keeps the types.
LEMMA PlanTypes == TypeInv /\ Plan => HandlerStays
<1> SUFFICES ASSUME TypeInv, Plan PROVE HandlerStays
  OBVIOUS
<1>1. version \in VersionType /\ handler \in HandlerType /\ handler.at = "plan"
  BY DEF TypeInv, TypeOK, HandlerType, VersionType, Plan
<1>2. handler.outcome # "retry"
  BY <1>1 DEF TypeInv, AttemptsLeft
<1>3. CASE ~Current
  BY <1>1, <1>3, EndsHandler DEF HandlerStays, Plan
<1>4. CASE Current
  <2>1. handler.meta \in MetaType /\ handler.meta.plan \in PlanType /\ handler.meta.notes \in Edits
    BY <1>1 DEF HandlerType, MetaType
  <2> DEFINE notes == IF TheJob.resume = "none" THEN 0 ELSE handler.meta.notes
             new == [notes |-> notes, edit |-> 0]
  <2>2. new \in PlanType
    BY <2>1, ConstantsAssumption DEF PlanType
  <2>3. PICK at \in {"pause_source", "pause_plan", "script"}, plan \in PlanType :
          handler' = [handler EXCEPT !.at = at, !.meta = [handler.meta EXCEPT !.plan = plan]]
    <3>1. PICK at \in {"pause_source", "pause_plan", "script"} :
            handler' = [handler EXCEPT !.at = at, !.meta.plan = IF at = "pause_source" THEN @ ELSE new]
      BY <1>4 DEF Plan
    <3> QED  BY <2>1, <2>2, <3>1
  <2> HIDE DEF new
  <2>4. [handler.meta EXCEPT !.plan = plan] \in MetaType
    BY <2>1, MetaRows
  <2>5. /\ handler' \in HandlerType /\ handler'.at = at
        /\ handler'.job = handler.job /\ handler'.outcome = handler.outcome
    BY <1>1, <2>3, <2>4 DEF HandlerType, Working
  <2> QED  BY <1>1, <1>2, <2>5 DEF HandlerStays, Plan
<1> QED  BY <1>3, <1>4

\* Both pauses keep the types.
LEMMA PauseTypes == TypeInv /\ (PauseForSource \/ PauseForPlan) => HandlerStays
<1> SUFFICES ASSUME TypeInv, PauseForSource \/ PauseForPlan PROVE HandlerStays
  OBVIOUS
<1>1. version \in VersionType /\ handler \in HandlerType /\ handler.at # "idle"
  BY DEF TypeInv, TypeOK, HandlerType, VersionType, PauseForSource, PauseForPlan
<1>2. CASE ~Current
  BY <1>1, <1>2, EndsHandler DEF HandlerStays, PauseForSource, PauseForPlan, Cas
<1>3. CASE Current
  <2>1. PICK m \in MetaType, o \in {"source_review", "plan_review"} :
          version' = [version EXCEPT !.status = "awaiting_review", !.meta = m] /\ Ends(o)
    <3>1. handler.meta \in MetaType /\ [handler.meta EXCEPT !.stage = "source"] \in MetaType
      BY <1>1, MetaRows DEF HandlerType
    <3> QED  BY <1>3, <3>1 DEF PauseForSource, PauseForPlan, Cas
  <2>2. version' \in VersionType
    BY <1>1, <2>1, VersionRows DEF Transient
  <2> QED  BY <1>1, <2>1, <2>2, EndsHandler DEF HandlerStays, PauseForSource, PauseForPlan
<1> QED  BY <1>2, <1>3

\* Metadata signed with the writer mark is well typed and names this job.
LEMMA SignedRow ==
  ASSUME TypeInv, handler.job \in JobIds, NEW r \in Nat
  PROVE  Signed(r) \in MetaType /\ Signed(r).writer = [job |-> handler.job, revision |-> r]
<1>1. handler.meta \in MetaType /\ NoPlan \in PlanType /\ NewMeta \in MetaType
  <2>1. handler.meta \in MetaType
    BY DEF TypeInv, TypeOK
  <2> QED  BY <2>1, MetaRows
<1> DEFINE m == IF Translates THEN NewMeta ELSE handler.meta
           w == [job |-> handler.job, revision |-> r]
<1>2. m \in MetaType /\ m.plan \in PlanType
  BY <1>1 DEF MetaType
<1>3. w \in [job : JobIds \cup {0}, revision : Nat]
  OBVIOUS
<1>4. PICK p \in PlanType : Signed(r) = [m EXCEPT !.writer = w, !.plan = p]
  BY <1>1, <1>2 DEF Signed, MetaType
<1> HIDE DEF m, w
<1>5. Signed(r) \in MetaType /\ Signed(r).writer = w
  BY <1>2, <1>3, <1>4 DEF MetaType
<1> QED  BY <1>5 DEF w

\* Writing the screenplay keeps the types.
LEMMA WriteTypes == TypeInv /\ WriteScript =>
  HandlerStays /\ scripts' \in [JobIds -> Nat]
<1> SUFFICES ASSUME TypeInv, WriteScript
             PROVE  HandlerStays /\ scripts' \in [JobIds -> Nat]
  OBVIOUS
<1>1. /\ version \in VersionType /\ handler \in HandlerType /\ handler.at = "script"
      /\ handler.job \in JobIds /\ scripts \in [JobIds -> Nat]
  BY DEF TypeInv, TypeOK, HandlerType, VersionType, WriteScript, HandlerRuns
<1>2. handler.outcome # "retry"
  BY <1>1 DEF TypeInv, AttemptsLeft
<1>3. scripts' \in [JobIds -> Nat]
  BY <1>1 DEF WriteScript
<1>4. CASE ~Current
  BY <1>1, <1>3, <1>4, EndsHandler DEF HandlerStays, WriteScript, Cas
<1>5. CASE Current
  <2> DEFINE new == handler.revision + 1
             text == version.text + 1
             meta == Signed(new)
  <2>1. new \in Nat \ {0} /\ text \in Nat
    BY <1>1 DEF HandlerType, VersionType
  <2>2. meta \in MetaType
    BY <1>1, <2>1, SignedRow
  <2>3. /\ version' = [version EXCEPT !.status = "building", !.revision = new,
                         !.text = text, !.meta = meta]
        /\ handler' = [handler EXCEPT !.at = "build", !.revision = new, !.text = text, !.meta = meta]
    BY <1>5 DEF WriteScript, Cas
  <2> HIDE DEF new, text, meta
  <2>4. version' \in VersionType
    BY <1>1, <2>1, <2>2, <2>3 DEF VersionType, Transient
  <2>5. /\ handler' \in HandlerType /\ handler'.at = "build"
        /\ handler'.job = handler.job /\ handler'.outcome = handler.outcome
    BY <1>1, <2>1, <2>2, <2>3 DEF HandlerType, Working
  <2> QED  BY <1>1, <1>2, <1>3, <2>4, <2>5 DEF HandlerStays, WriteScript
<1> QED  BY <1>4, <1>5

\* Finishing a build keeps the types.
LEMMA FinishTypes == TypeInv /\ FinishBuild => HandlerStays
<1> SUFFICES ASSUME TypeInv, FinishBuild PROVE HandlerStays
  OBVIOUS
<1>1. version \in VersionType /\ handler \in HandlerType /\ handler.at = "build"
  BY DEF TypeInv, TypeOK, HandlerType, VersionType, FinishBuild
<1>2. CASE ~Current
  BY <1>1, <1>2, EndsHandler DEF HandlerStays, FinishBuild, Cas
<1>3. CASE Current
  <2>1. PICK film \in {handler.text, version.film}, built \in {handler.revision, version.built} :
          version' = [version EXCEPT !.status = "ready", !.meta = handler.meta,
                        !.film = film, !.built = built] /\ Ends("succeeded")
    BY <1>3 DEF FinishBuild, Cas
  <2>2. film \in Nat /\ built \in Nat /\ handler.meta \in MetaType
    BY <1>1 DEF HandlerType, VersionType
  <2>3. version' \in VersionType
    BY <1>1, <2>1, <2>2 DEF VersionType
  <2> QED  BY <1>1, <2>1, <2>3, EndsHandler DEF HandlerStays, FinishBuild
<1> QED  BY <1>2, <1>3

\* Failing keeps the types and settles the version.
LEMMA FailTypes == TypeInv /\ Fail => HandlerStays /\ StatusSettles
<1> SUFFICES ASSUME TypeInv, Fail PROVE HandlerStays /\ StatusSettles
  OBVIOUS
<1>1. version \in VersionType /\ handler \in HandlerType /\ handler.at \in Working
  BY DEF TypeInv, TypeOK, HandlerType, VersionType, Fail
<1>2. version' = version \/ \E s \in {"ready", "failed"} : version' = [version EXCEPT !.status = s]
  BY DEF Fail, Marked
<1>3. StatusSettles
  BY <1>1, <1>2 DEF StatusSettles, VersionType
<1>4. PICK o \in {"retry", "failed", "cancelled"} :
        Ends(o) /\ (o = "retry" => jobs[handler.job].attempts < JobMaxAttempts)
  BY DEF Fail, TheJob
<1>5. handler.at # "idle"
  BY <1>1 DEF Working
<1>6. version' \in VersionType
  BY <1>3 DEF StatusSettles
<1> QED  BY <1>3, <1>4, <1>5, <1>6, EndsHandler DEF HandlerStays, Fail

-----------------------------------------------------------------------------
(* What a request that commits does *)

\* The metadata under review is replaced by what request q has read and edited.
MetaSaved(q) ==
  /\ version.status = "awaiting_review"
  /\ version' \in VersionType
  /\ version'.meta.writer = requests[q].meta.writer
  /\ version'.status = version.status /\ version'.revision = version.revision
  /\ version'.text = version.text /\ version'.built = version.built
  /\ version'.film = version.film

\* A teacher's screenplay is saved while no job is active.
TextSaved(q) ==
  /\ requests[q].op = "change" /\ requests[q].revision = version.revision
  /\ \A k \in JobIds : jobs[k].status \notin Active
  /\ version' \in VersionType
  /\ version'.revision = version.revision + 1 /\ version'.text = version.text + 1
  /\ version'.meta = version.meta /\ version'.status = version.status
  /\ version'.built = version.built /\ version'.film = version.film

\* A saved plan or source review changes only the metadata, or is refused.
LEMMA SaveEffect ==
  ASSUME TypeInv, NEW q \in Requests, SavePlan(q) \/ SaveSource(q)
  PROVE  /\ requests[q].op \in {"save_plan", "save_source"}
         /\ version' = version \/ MetaSaved(q)
         /\ UNCHANGED <<jobs, approved>>
<1>1. version \in VersionType /\ requests[q].meta \in MetaType
  <2>1. requests[q] \in RequestType /\ version \in VersionType
    BY DEF TypeInv, TypeOK, RequestType, VersionType
  <2> QED  BY <2>1 DEF RequestType
<1>2. ASSUME NEW m \in MetaType, m.writer = requests[q].meta.writer,
             version.status = "awaiting_review", version' = [version EXCEPT !.meta = m]
      PROVE  MetaSaved(q)
  BY <1>1, <1>2 DEF VersionType, MetaSaved
<1>3. CASE SavePlan(q)
  <2>1. CASE version.status = "awaiting_review"
    <3>1. PICK e \in Edits : version' = [version EXCEPT !.meta = [requests[q].meta EXCEPT !.plan.edit = e]]
      BY <1>3, <2>1 DEF SavePlan
    <3> DEFINE m == [requests[q].meta EXCEPT !.plan.edit = e]
    <3>2. m \in MetaType
      BY <1>1, MetaRows
    <3>3. m.writer = requests[q].meta.writer
      BY <1>1 DEF MetaType
    <3>4. MetaSaved(q)
      BY <1>2, <2>1, <3>1, <3>2, <3>3
    <3> QED  BY <1>3, <3>4 DEF SavePlan
  <2> QED  BY <1>3, <2>1 DEF SavePlan
<1>4. CASE SaveSource(q)
  <2>1. CASE version.status = "awaiting_review"
    <3>1. PICK n \in Edits : version' = [version EXCEPT !.meta = [requests[q].meta EXCEPT !.notes = n]]
      BY <1>4, <2>1 DEF SaveSource
    <3> DEFINE m == [requests[q].meta EXCEPT !.notes = n]
    <3>2. m \in MetaType
      BY <1>1, MetaRows
    <3>3. m.writer = requests[q].meta.writer
      BY <1>1 DEF MetaType
    <3>4. MetaSaved(q)
      BY <1>2, <2>1, <3>1, <3>2, <3>3
    <3> QED  BY <1>4, <3>4 DEF SaveSource
  <2> QED  BY <1>4, <2>1 DEF SaveSource
<1> QED  BY <1>3, <1>4

\* A request that changes the text by its revision does so beside no active job.
LEMMA TextEffect ==
  ASSUME TypeInv, NEW q \in Requests, requests[q].op = "change",
         version.revision = requests[q].revision, ActiveJobs = {},
         version' = [version EXCEPT !.revision = @ + 1, !.text = @ + 1]
  PROVE  TextSaved(q)
<1>1. version \in VersionType
  BY DEF TypeInv, TypeOK, VersionType
<1>2. version' = [version EXCEPT !.revision = version.revision + 1, !.text = version.text + 1]
  BY <1>1 DEF VersionType
<1>3. version' \in VersionType
  BY <1>1, <1>2, VersionRows
<1>4. /\ version'.revision = version.revision + 1 /\ version'.text = version.text + 1
      /\ version'.meta = version.meta /\ version'.status = version.status
      /\ version'.built = version.built /\ version'.film = version.film
  BY <1>1, <1>2 DEF VersionType
<1> QED  BY <1>3, <1>4 DEF TextSaved, ActiveJobs

\* An approval is refused, or it notes the plan under review and enqueues the continuation.
LEMMA ApproveEffect ==
  ASSUME TypeInv, NEW q \in Requests, Approve(q)
  PROVE  LET old == requests[q].job IN
         \/ UNCHANGED <<version, jobs, approved>>
         \/ /\ version.status = "awaiting_review"
            /\ version' \in VersionType /\ version'.status = "generating"
            /\ version'.revision = version.revision /\ version'.text = version.text
            /\ version'.built = version.built /\ version'.film = version.film
            /\ version'.meta = version.meta
            /\ approved' = version.meta.plan
            /\ old \in JobIds /\ jobs[old].status = "awaiting_review"
            /\ \E n \in JobIds :
                 Adds(n, "generate_lecture", requests[q].revision, jobs[old].result, old)
<1> DEFINE old == requests[q].job
<1>1. version \in VersionType /\ requests[q] \in RequestType /\ jobs \in [JobIds -> JobType]
  BY DEF TypeInv, TypeOK, RequestType, VersionType
<1>2. old \in JobIds
  BY DEF TypeInv, ApprovalsKnow, Approve
<1>3. CASE ~(version.status = "awaiting_review" /\ jobs[old].status = "awaiting_review")
  BY <1>3 DEF Approve
<1>4. CASE version.status = "awaiting_review" /\ jobs[old].status = "awaiting_review"
  <2>1. /\ version' = [version EXCEPT !.status = "generating"]
        /\ Enqueue("generate_lecture", requests[q].revision, jobs[old].result, old)
        /\ approved' = version.meta.plan
    BY <1>4 DEF Approve
  <2>2. \A k \in JobIds : jobs[k].status \in Active => k = old
    BY <1>2, <1>4 DEF TypeInv, OneActive, Active
  <2>3. requests[q].revision \in Nat /\ jobs[old].result \in {"none", "source_review", "plan_review"}
    BY <1>1, <1>2 DEF RequestType, JobType
  <2>4. \E n \in JobIds :
          Adds(n, "generate_lecture", requests[q].revision, jobs[old].result, old)
    BY <1>2, <1>4, <2>1, <2>2, <2>3, EnqueueAdds DEF Kinds
  <2>5. /\ version' \in VersionType /\ version'.status = "generating"
        /\ version'.revision = version.revision /\ version'.text = version.text
        /\ version'.built = version.built /\ version'.film = version.film
        /\ version'.meta = version.meta
    BY <1>1, <2>1 DEF VersionType, Transient
  <2> QED  BY <1>2, <1>4, <2>1, <2>4, <2>5
<1> QED  BY <1>3, <1>4

\* The other requests are refused, save a new text, enqueue a job, or do both.
LEMMA ChangeEffect ==
  ASSUME TypeInv, NEW q \in Requests, SaveScreenplay(q) \/ NewVisual(q) \/ EnqueueWork(q)
  PROVE  /\ requests[q].op = "change"
         /\ approved' = approved
         /\ \/ UNCHANGED <<version, jobs>>
            \/ UNCHANGED jobs /\ TextSaved(q)
            \/ /\ TextSaved(q)
               /\ \E n \in JobIds : Adds(n, "build_assets", version.revision + 1, "none", 0)
            \/ /\ UNCHANGED version
               /\ \E n \in JobIds, kind \in {"build_assets", "regenerate_scene"} :
                    Adds(n, kind, requests[q].revision, "none", 0)
<1>1. /\ version.revision + 1 \in Nat /\ requests[q].revision \in Nat /\ 0 \notin JobIds
  <2>1. version \in VersionType /\ requests[q] \in RequestType
    BY DEF TypeInv, TypeOK, RequestType, VersionType
  <2> QED  BY <2>1 DEF RequestType, VersionType, JobIds
<1>2. ASSUME NEW kind \in {"build_assets", "regenerate_scene"}, NEW base \in Nat,
             Enqueue(kind, base, "none", 0), ActiveJobs = {}
      PROVE  \E n \in JobIds : Adds(n, kind, base, "none", 0)
  <2>1. \A k \in JobIds : jobs[k].status \in Active => k = 0
    BY <1>2 DEF ActiveJobs
  <2> QED  BY <1>1, <1>2, <2>1, EnqueueAdds DEF Kinds
<1>3. CASE SaveScreenplay(q)
  BY <1>3, TextEffect DEF SaveScreenplay
<1>4. CASE NewVisual(q)
  BY <1>1, <1>2, <1>4, TextEffect DEF NewVisual
<1>5. CASE EnqueueWork(q)
  <2>1. PICK kind \in {"build_assets", "regenerate_scene"} :
          IF ActiveJobs = {} THEN Enqueue(kind, requests[q].revision, "none", 0) ELSE UNCHANGED jobs
    BY <1>5 DEF EnqueueWork
  <2>2. CASE ActiveJobs = {}
    BY <1>1, <1>2, <1>5, <2>1, <2>2 DEF EnqueueWork
  <2>3. CASE ActiveJobs # {}
    BY <1>5, <2>1, <2>3 DEF EnqueueWork
  <2> QED  BY <2>2, <2>3
<1> QED  BY <1>3, <1>4, <1>5

\* The awaiting job is the one that Waiting names.
LEMMA WaitingAwaits ==
  ASSUME TypeInv
  PROVE  Waiting # 0 => Waiting \in JobIds /\ jobs[Waiting].status = "awaiting_review"
<1> DEFINE waiting == {j \in JobIds : jobs[j].status = "awaiting_review"}
<1>1. CASE waiting = {}
  BY <1>1 DEF Waiting
<1>2. CASE waiting # {}
  <2>1. PICK j \in waiting : TRUE
    BY <1>2
  <2>2. \A k \in waiting : k <= j
    <3>1. \A k \in waiting : k = j
      BY <2>1 DEF TypeInv, OneActive, Active
    <3> QED  BY <2>1, <3>1 DEF JobIds
  <2>3. (CHOOSE i \in waiting : \A k \in waiting : k <= i) \in waiting
    BY <2>1, <2>2
  <2> QED  BY <1>2, <2>3 DEF Waiting
<1> QED  BY <1>1, <1>2

\* What request q has read.
StartRow(q, row) ==
  /\ row \in RequestType /\ requests[q].op = "none"
  /\ requests' = [requests EXCEPT ![q] = row]
  /\ row.op # "none" /\ row.revision = version.revision
  /\ row.op \in {"save_plan", "save_source", "approve"} => version.status = "awaiting_review"
  /\ row.meta \in {version.meta, NewMeta}
  /\ row.op = "approve" => row.job \in JobIds /\ jobs[row.job].status = "awaiting_review"
  /\ row.op = "change" => version.text # 0

\* What a request keeps of the version it reads.
LEMMA StartEffect ==
  ASSUME TypeInv, NEW q \in Requests, Starts(q)
  PROVE  \E row : StartRow(q, row)
<1>1. /\ version.revision \in Nat /\ version.meta \in MetaType /\ NewMeta \in MetaType
  <2>1. version \in VersionType
    BY DEF TypeInv, TypeOK, VersionType
  <2> QED  BY <2>1, MetaRows DEF VersionType
<1> DEFINE row(op, j) == [op |-> op, revision |-> version.revision, job |-> j,
                          meta |-> IF op \in {"save_plan", "save_source"}
                                   THEN version.meta ELSE NewMeta]
<1>2. ASSUME NEW op \in {"save_plan", "save_source", "approve", "change"},
             NEW j \in JobIds \cup {0}
      PROVE  row(op, j) \in RequestType
  BY <1>1, <1>2 DEF RequestType
<1>3. CASE ReadPlan(q) \/ ReadSource(q)
  <2>1. PICK op \in {"save_plan", "save_source"} : requests' = [requests EXCEPT ![q] = row(op, 0)]
    BY <1>3 DEF ReadPlan, ReadSource, Read
  <2>2. StartRow(q, row(op, 0))
    BY <1>2, <1>3, <2>1 DEF StartRow, Starts, ReadPlan, ReadSource, AwaitsSource
  <2> QED  BY <2>2
<1>4. CASE ReadApproval(q)
  <2>1. Waiting \in JobIds /\ jobs[Waiting].status = "awaiting_review"
    BY <1>4, WaitingAwaits DEF ReadApproval
  <2>2. requests' = [requests EXCEPT ![q] = row("approve", Waiting)]
    BY <1>4 DEF ReadApproval, Read
  <2>3. StartRow(q, row("approve", Waiting))
    BY <1>2, <1>4, <2>1, <2>2 DEF StartRow, Starts, ReadApproval
  <2> QED  BY <2>3
<1>5. CASE ReadScreenplay(q)
  <2>1. requests' = [requests EXCEPT ![q] = row("change", 0)]
    BY <1>5 DEF ReadScreenplay, Read
  <2>2. StartRow(q, row("change", 0))
    BY <1>2, <1>5, <2>1 DEF StartRow, Starts, ReadScreenplay
  <2> QED  BY <2>2
<1> QED  BY <1>3, <1>4, <1>5 DEF Starts

-----------------------------------------------------------------------------
(* Types *)

\* The first job of the version is all there is.
LEMMA InitJobs ==
  ASSUME Init
  PROVE  /\ 1 \in JobIds /\ asked \subseteq Asks
         /\ \E kind \in {"generate_lecture", "translate"}, base \in {0, 1} :
              NewRow(jobs[1], kind, base, "none") /\ (kind = "generate_lecture" => base = 1)
         /\ \A j \in JobIds : j # 1 => jobs[j] = NoJob
         /\ jobs \in [JobIds -> JobType]
         /\ NoJob.status = "absent" /\ ~NoJob.skipped
<1>1. 1 \in JobIds /\ 0 \in 0..JobMaxAttempts
  BY ConstantsAssumption DEF JobIds
<1>2. PICK kind \in {"generate_lecture", "translate"}, base \in {0, 1} :
        /\ jobs = [NoJobs EXCEPT ![1] = NewJob(kind, base, "none")] /\ asked \subseteq Asks
        /\ kind = "generate_lecture" => base = 1
  BY DEF Init
<1> DEFINE new == NewJob(kind, base, "none")
<1>3. NewRow(new, kind, base, "none")
  BY NewJobRow DEF Kinds
<1>4. NoJob \in JobType /\ NoJob.status = "absent" /\ ~NoJob.skipped
  BY <1>1 DEF NoJob, JobType
<1>5. new \in JobType
  BY <1>3 DEF NewRow
<1> HIDE DEF new
<1>6. jobs = [NoJobs EXCEPT ![1] = new]
  BY <1>2 DEF new
<1> QED  BY <1>1, <1>2, <1>3, <1>4, <1>5, <1>6 DEF NoJobs

\* The initial state is well typed.
LEMMA TypeInit == Init => TypeInv
<1> SUFFICES ASSUME Init PROVE TypeInv
  OBVIOUS
<1>1. /\ 0 \in 0..JobMaxAttempts /\ 1 \in JobIds /\ NewMeta \in MetaType /\ NoPlan \in PlanType
  <2>1. 0 \in 0..JobMaxAttempts /\ 1 \in JobIds
    BY ConstantsAssumption DEF JobIds
  <2>2. NewMeta \in MetaType /\ NoPlan \in PlanType
    BY ConstantsAssumption DEF NewMeta, MetaType, NoWriter, PlanType
  <2> QED  BY <2>1, <2>2
<1>2. version \in VersionType
  BY <1>1 DEF Init, NewVersion, VersionType, Transient
<1>6. /\ jobs \in [JobIds -> JobType] /\ jobs[1].status = "queued" /\ jobs[1].kind \in Kinds
      /\ jobs[1].attempts = 0 /\ asked \subseteq Asks
      /\ \A j \in JobIds : j # 1 => jobs[j].status = "absent"
  BY InitJobs DEF NewRow, Kinds
<1>7. TypeOK
  <2>1. /\ handler \in HandlerType /\ requests \in [Requests -> RequestType]
        /\ approved \in PlanType /\ scripts \in [JobIds -> Nat]
    BY <1>1, NoRows DEF Init
  <2> QED  BY <1>2, <1>6, <2>1 DEF TypeOK, VersionType, HandlerType, RequestType
<1>8. HandlerRuns /\ ApprovalsKnow
  BY DEF Init, NoHandler, NoRequest, HandlerRuns, ApprovalsKnow
<1>9. OneActive
  BY <1>6 DEF OneActive, Active
<1>10. AttemptsLeft
  <2>1. handler.outcome = "none"
    BY DEF Init, NoHandler
  <2> QED  BY <1>6, <2>1, ConstantsAssumption DEF AttemptsLeft
<1>11. KindsKnown
  BY <1>6 DEF KindsKnown
<1> QED  BY <1>7, <1>8, <1>9, <1>10, <1>11 DEF TypeInv

\* A step of the handler keeps the types.
LEMMA TypeHandler == TypeInv /\ Handler => HandlerStays /\ TypeInv'
<1> SUFFICES ASSUME TypeInv, Handler PROVE HandlerStays /\ TypeInv'
  OBVIOUS
<1>1. HandlerStays
  BY LoadTypes, BeginTypes, ResumeTypes, PlanTypes, PauseTypes, WriteTypes, FinishTypes, FailTypes
     DEF Handler
<1>2. scripts' \in [JobIds -> Nat]
  <2>1. scripts \in [JobIds -> Nat]
    BY DEF TypeInv, TypeOK
  <2> QED  BY <2>1, WriteTypes
           DEF Handler, Load, Begin, ResumeBuild, Plan, PauseForSource, PauseForPlan, FinishBuild, Fail
<1>3. TypeOK'
  BY <1>1, <1>2 DEF TypeInv, TypeOK, HandlerStays, VersionType, HandlerType
<1> QED  BY <1>1, <1>3
         DEF TypeInv, HandlerStays, HandlerRuns, OneActive, AttemptsLeft, ApprovalsKnow, KindsKnown

\* A step of the queue keeps the types.
LEMMA TypeTurn ==
  ASSUME TypeInv, NEW j \in JobIds, Turns(j), handler' \in HandlerType,
         handler'.at # "idle" => handler'.job \in JobIds /\ jobs'[handler'.job].status = "running",
         handler'.outcome = "retry" =>
           handler'.at = "ended" /\ jobs'[handler'.job].attempts < JobMaxAttempts
  PROVE  TypeInv'
<1>1. /\ jobs' \in [JobIds -> JobType] /\ jobs[j].status \in Active
      /\ \A k \in JobIds : k # j => jobs'[k] = jobs[k]
      /\ jobs'[j].kind = jobs[j].kind
      /\ jobs'[j].status = "queued" => jobs'[j].attempts < JobMaxAttempts
  BY DEF Turns, Moves, Closes, OthersKept, SameTask, Retryable
<1>2. TypeOK'
  BY <1>1 DEF TypeInv, TypeOK, Turns, StatusSettles, VersionType, HandlerType
<1>3. OneActive'
  BY <1>1 DEF TypeInv, OneActive
<1>4. KindsKnown'
  BY <1>1 DEF TypeInv, KindsKnown, Active
<1>5. HandlerRuns' /\ AttemptsLeft'
  BY <1>1 DEF TypeInv, HandlerRuns, AttemptsLeft
<1>6. ApprovalsKnow'
  BY DEF TypeInv, ApprovalsKnow, Turns
<1> QED  BY <1>2, <1>3, <1>4, <1>5, <1>6 DEF TypeInv

\* A new job keeps the types.
LEMMA TypeAdd ==
  ASSUME TypeInv, NEW n \in JobIds, NEW kind, NEW base, NEW resume, NEW old,
         Adds(n, kind, base, resume, old), version' \in VersionType, approved' \in PlanType,
         requests' \in [Requests -> RequestType], ApprovalsKnow',
         UNCHANGED <<handler, asked, scripts>>
  PROVE  TypeInv'
<1>1. /\ jobs' \in [JobIds -> JobType] /\ jobs[n].status = "absent" /\ kind \in Kinds
      /\ \A k \in JobIds : k # n /\ k # old => jobs'[k] = jobs[k]
      /\ \A k \in JobIds : jobs[k].status \in Active => k = old
      /\ old \in JobIds => jobs'[old].kind = jobs[old].kind
      /\ jobs'[n].kind = kind /\ jobs'[n].status = "queued" /\ jobs'[n].attempts = 0
  BY DEF Adds, NewRow, SameTask
<1>2. old \in JobIds => /\ jobs'[old].status \notin Active /\ jobs[old].status \notin {"absent", "running"}
                        /\ jobs'[old].status # "queued"
  BY DEF Adds, Active, Retryable
<1>3. TypeOK'
  BY <1>1 DEF TypeInv, TypeOK, VersionType, HandlerType, RequestType
<1>4. OneActive'
  BY <1>1, <1>2 DEF OneActive
<1>5. KindsKnown'
  BY <1>1, <1>2 DEF TypeInv, KindsKnown
<1>6. handler.at = "idle"
  BY <1>1, <1>2 DEF TypeInv, HandlerRuns, Active
<1>7. HandlerRuns'
  BY <1>6 DEF HandlerRuns
<1>8. AttemptsLeft'
  <2>1. handler.outcome # "retry"
    BY <1>6 DEF TypeInv, AttemptsLeft
  <2>2. \A k \in JobIds : jobs'[k].status = "queued" => jobs'[k].attempts < JobMaxAttempts
    BY <1>1, <1>2, ConstantsAssumption DEF TypeInv, AttemptsLeft
  <2> QED  BY <2>1, <2>2 DEF AttemptsLeft
<1> QED  BY <1>3, <1>4, <1>5, <1>7, <1>8 DEF TypeInv

\* Every step keeps TypeInv: one case per action.
LEMMA TypeStep == TypeInv /\ [Next]_vars => TypeInv'
<1> SUFFICES ASSUME TypeInv, [Next]_vars PROVE TypeInv'
  OBVIOUS
<1>1. CASE UNCHANGED vars
  BY <1>1 DEF vars, TypeInv, TypeOK, HandlerRuns, OneActive, AttemptsLeft, ApprovalsKnow, KindsKnown
<1>2. CASE Handler
  BY <1>2, TypeHandler
<1>3. CASE Persist
  <2>1. handler.job \in JobIds
    BY <1>3, PersistTurns DEF Turns, Moves, Closes
  <2> QED  BY <1>3, <2>1, PersistTurns, TypeTurn, NoRows DEF NoHandler
<1>4. CASE Crash
  <2>1. handler' = NoHandler
    BY <1>4 DEF Crash
  <2>2. TypeOK'
    BY <1>4, <2>1, NoRows DEF TypeInv, TypeOK, Crash, HandlerType
  <2> QED  BY <1>4, <2>1, <2>2
           DEF TypeInv, Crash, NoHandler, HandlerRuns, OneActive, AttemptsLeft, ApprovalsKnow, KindsKnown
<1>5. ASSUME NEW j \in JobIds, Claim(j) PROVE TypeInv'
  <2>1. handler' = [NoHandler EXCEPT !.at = "load", !.job = j]
    BY <1>5 DEF Claim
  <2>2. handler' \in HandlerType /\ handler'.at = "load" /\ handler'.job = j /\ handler'.outcome = "none"
    BY <2>1, NoRows DEF HandlerType, NoHandler
  <2> QED  BY <1>5, <2>2, ClaimTurns, TypeTurn
<1>6. ASSUME NEW j \in JobIds, Recover(j) PROVE TypeInv'
  <2>1. Turns(j) /\ handler' = handler /\ handler.job # j
    BY <1>6, RecoverTurns
  <2>2. OthersKept(j)
    BY <2>1 DEF Turns, Moves, Closes
  <2>3. handler \in HandlerType
    BY DEF TypeInv, TypeOK, HandlerType
  <2> QED  BY <2>1, <2>2, <2>3, TypeTurn DEF TypeInv, HandlerRuns, AttemptsLeft, OthersKept
<1>7. ASSUME NEW j \in JobIds, RequestCancel(j) PROVE TypeInv'
  <2>1. Turns(j) /\ handler' = handler
    BY <1>7, CancelTurns
  <2>2. OthersKept(j)
    BY <2>1 DEF Turns, Moves, Closes
  <2>3. handler \in HandlerType
    BY DEF TypeInv, TypeOK, HandlerType
  <2>4. handler.at # "idle" =>
          /\ handler.job \in JobIds /\ jobs'[handler.job].status = "running"
          /\ jobs'[handler.job].attempts = jobs[handler.job].attempts
    BY <1>7, <2>2, CancelTurns DEF TypeInv, HandlerRuns, OthersKept
  <2> QED  BY <2>1, <2>3, <2>4, TypeTurn DEF TypeInv, AttemptsLeft
<1>8. ASSUME NEW j \in JobIds, RetryJob(j) PROVE TypeInv'
  <2>1. PICK n \in JobIds : Adds(n, jobs[j].kind, jobs[j].base, jobs[j].resume, j)
    BY <1>8, RetryAdds
  <2>2. /\ version' \in VersionType /\ approved' \in PlanType
        /\ requests' \in [Requests -> RequestType] /\ ApprovalsKnow'
        /\ UNCHANGED <<handler, asked, scripts>>
    BY <1>8 DEF TypeInv, TypeOK, RetryJob, VersionType, RequestType, ApprovalsKnow
  <2> QED  BY <2>1, <2>2, TypeAdd
<1>9. ASSUME NEW q \in Requests, Starts(q) PROVE TypeInv'
  <2>1. PICK row : StartRow(q, row)
    BY <1>9, StartEffect
  <2>2. requests' \in [Requests -> RequestType] /\ requests' = [requests EXCEPT ![q] = row]
    BY <2>1 DEF StartRow, TypeInv, TypeOK, RequestType
  <2>3. ApprovalsKnow'
    BY <2>1, <2>2 DEF StartRow, TypeInv, TypeOK, ApprovalsKnow
  <2>4. UNCHANGED <<version, jobs, handler, asked, approved, scripts>>
    BY <1>9 DEF Starts
  <2>5. TypeOK'
    BY <2>2, <2>4 DEF TypeInv, TypeOK, RequestType
  <2> QED  BY <2>3, <2>4, <2>5 DEF TypeInv, HandlerRuns, OneActive, AttemptsLeft, KindsKnown
<1>10. ASSUME NEW q \in Requests, Commits(q) PROVE TypeInv'
  <2>1. /\ requests' = [requests EXCEPT ![q] = NoRequest]
        /\ UNCHANGED <<handler, asked, scripts>>
    BY <1>10 DEF Commits, Done
  <2>2. requests' \in [Requests -> RequestType] /\ ApprovalsKnow'
    BY <2>1, NoRows DEF TypeInv, TypeOK, RequestType, ApprovalsKnow, NoRequest
  <2>3. version \in VersionType /\ approved \in PlanType
    BY DEF TypeInv, TypeOK, VersionType
  <2>4. ASSUME version' \in VersionType, approved' \in PlanType, jobs' = jobs
        PROVE  TypeInv'
    <3>1. TypeOK'
      BY <2>1, <2>2, <2>4 DEF TypeInv, TypeOK, VersionType, HandlerType, RequestType
    <3> QED  BY <2>1, <2>2, <2>4, <3>1 DEF TypeInv, HandlerRuns, OneActive, AttemptsLeft, KindsKnown
  <2>5. CASE SavePlan(q) \/ SaveSource(q)
    BY <2>3, <2>4, <2>5, SaveEffect DEF MetaSaved
  <2>6. CASE Approve(q)
    <3>1. version.meta.plan \in PlanType
      BY <2>3 DEF VersionType, MetaType
    <3> QED  BY <2>1, <2>2, <2>3, <2>4, <2>6, <3>1, ApproveEffect, TypeAdd
  <2>7. CASE SaveScreenplay(q) \/ NewVisual(q) \/ EnqueueWork(q)
    BY <2>1, <2>2, <2>3, <2>4, <2>7, ChangeEffect, TypeAdd DEF TextSaved
  <2> QED  BY <1>10, <2>5, <2>6, <2>7 DEF Commits
<1> QED  BY <1>1, <1>2, <1>3, <1>4, <1>5, <1>6, <1>7, <1>8, <1>9, <1>10 DEF Next

\* The types and the relation of handler and job (TypeInv) hold in every reachable state.
THEOREM TypeAlways == Spec => []TypeInv
<1> QED  BY TypeInit, TypeStep, PTL DEF Spec

\* The rows, the snapshot and what requests have read have their shapes, and
\* no job is tried more often than configured.
THEOREM TypeCorrect == Spec => []TypeOK
<1>1. TypeInv => TypeOK
  BY DEF TypeInv
<1> QED  BY <1>1, TypeAlways, PTL

-----------------------------------------------------------------------------
(* The snapshot is current: while a handler works, its job is active, and no *)
(* request changes the screenplay.                                         *)

Snapshot == handler.at \in Working =>
  /\ handler.revision = version.revision /\ handler.text = version.text
  /\ handler.meta.writer = version.meta.writer

ContentKept ==
  /\ version'.revision = version.revision /\ version'.text = version.text
  /\ version'.built = version.built /\ version'.film = version.film

SnapshotKept == handler'.revision = handler.revision /\ handler'.text = handler.text

\* The handler goes on, its outcome still open.
GoesTo(at) == handler'.at = at /\ handler'.outcome = handler.outcome

\* The handler is done with outcome o.
IsOver(o) == handler'.at = "ended" /\ handler'.outcome = o

\* What reading the snapshot decides: begin, resume the own write, or skip.
LEMMA LoadEffect ==
  ASSUME TypeInv, Load
  PROVE  /\ handler.at = "load" /\ UNCHANGED <<version, scripts>>
         /\ \/ /\ handler'.revision = version.revision /\ handler'.text = version.text
               /\ handler'.meta = version.meta
               /\ \/ GoesTo("begin") /\ IF Translates THEN ~WrittenByThisJob
                                        ELSE version.revision = TheJob.base
                  \/ GoesTo("resume") /\ WrittenByThisJob
            \/ /\ IsOver("skipped") /\ ~Translates /\ ~WrittenByThisJob
<1>1. handler \in HandlerType
  BY DEF TypeInv, TypeOK, HandlerType
<1> DEFINE begins == IF Translates THEN ~WrittenByThisJob ELSE version.revision = TheJob.base
<1>2. CASE begins \/ WrittenByThisJob
  <2>1. handler' = [handler EXCEPT
            !.at = IF begins THEN "begin" ELSE "resume",
            !.revision = version.revision, !.text = version.text,
            !.built = version.built, !.meta = version.meta]
    BY <1>2 DEF Load
  <2>2. handler'.revision = version.revision /\ handler'.text = version.text
        /\ handler'.meta = version.meta /\ handler'.outcome = handler.outcome
        /\ handler'.at = IF begins THEN "begin" ELSE "resume"
    BY <1>1, <2>1 DEF HandlerType
  <2> QED  BY <1>2, <2>2 DEF Load, GoesTo
<1>3. CASE ~(begins \/ WrittenByThisJob)
  <2>1. Ends("skipped")
    BY <1>3 DEF Load
  <2> QED  BY <1>3, <2>1, EndsHandler DEF Load, IsOver
<1> QED  BY <1>2, <1>3

\* What the first write changes, and where the handler goes on.
LEMMA BeginEffect ==
  ASSUME TypeInv, Snapshot, Begin
  PROVE  /\ handler.at = "begin" /\ ContentKept /\ SnapshotKept /\ scripts' = scripts
         /\ version'.status \in {"building", "generating"}
         /\ version'.meta.writer = version.meta.writer
         /\ ~ChecksSource => version'.meta = version.meta
         /\ handler'.meta.writer = handler.meta.writer
         /\ handler'.meta.plan = handler.meta.plan
         /\ \/ GoesTo("build") /\ TheJob.kind = "build_assets"
            \/ GoesTo("plan") /\ Generates
               /\ (TheJob.resume # "plan_review" \/ handler.meta.plan = NoPlan)
            \/ GoesTo("script")
<1>1. handler \in HandlerType /\ version \in VersionType /\ handler.at = "begin" /\ Current
  BY DEF TypeInv, TypeOK, HandlerType, VersionType, Begin, Snapshot, Working, Current
<1>2. handler.meta \in MetaType /\ version.meta \in MetaType
  BY <1>1 DEF HandlerType, VersionType
<1> DEFINE meta == IF ChecksSource THEN [handler.meta EXCEPT !.stage = "none"] ELSE handler.meta
           next == IF TheJob.kind = "build_assets" THEN "build"
              ELSE IF Generates /\ (TheJob.resume # "plan_review" \/ meta.plan = NoPlan)
              THEN "plan" ELSE "script"
           status == IF TheJob.kind = "build_assets" THEN "building" ELSE "generating"
           kept == IF ChecksSource THEN meta ELSE version.meta
<1>3. /\ version' = [version EXCEPT !.status = status, !.meta = kept]
      /\ handler' = [handler EXCEPT !.at = next, !.meta = meta]
      /\ scripts' = scripts
  BY <1>1 DEF Begin, Cas
<1>4. meta.writer = handler.meta.writer /\ meta.plan = handler.meta.plan
  BY <1>2 DEF MetaType
<1>5. kept.writer = version.meta.writer
  BY <1>1, <1>4 DEF Snapshot, Working
<1>6. /\ ~ChecksSource => kept = version.meta
      /\ status \in {"building", "generating"}
      /\ \/ next = "build" /\ TheJob.kind = "build_assets"
         \/ next = "plan" /\ Generates
            /\ (TheJob.resume # "plan_review" \/ handler.meta.plan = NoPlan)
         \/ next = "script"
  BY <1>4
<1> HIDE DEF meta, next, status, kept
<1>7. /\ handler'.at = next /\ handler'.meta = meta /\ handler'.outcome = handler.outcome
      /\ handler'.revision = handler.revision /\ handler'.text = handler.text
  BY <1>1, <1>3 DEF HandlerType
<1>8. /\ version'.status = status /\ version'.meta = kept /\ ContentKept
  BY <1>1, <1>3 DEF VersionType, ContentKept
<1> QED  BY <1>1, <1>3, <1>4, <1>5, <1>6, <1>7, <1>8 DEF SnapshotKept, GoesTo

\* A resumed build changes only the status.
LEMMA ResumeEffect ==
  ASSUME TypeInv, Snapshot, ResumeBuild
  PROVE  /\ handler.at = "resume" /\ ContentKept /\ SnapshotKept /\ scripts' = scripts
         /\ version'.status = "building" /\ version'.meta = version.meta
         /\ handler'.meta = handler.meta /\ GoesTo("build")
<1>1. handler \in HandlerType /\ version \in VersionType /\ handler.at = "resume" /\ Current
  BY DEF TypeInv, TypeOK, HandlerType, VersionType, ResumeBuild, Snapshot, Working, Current
<1>2. /\ version' = [version EXCEPT !.status = "building"]
      /\ handler' = [handler EXCEPT !.at = "build"] /\ scripts' = scripts
  BY <1>1 DEF ResumeBuild, Cas, To
<1> QED  BY <1>1, <1>2 DEF ContentKept, SnapshotKept, GoesTo, HandlerType, VersionType

\* Planning changes no row; the handler pauses or goes on to the script.
LEMMA PlanEffect ==
  ASSUME TypeInv, Snapshot, Plan
  PROVE  /\ handler.at = "plan" /\ UNCHANGED <<version, scripts>> /\ SnapshotKept
         /\ handler'.meta.writer = handler.meta.writer
         /\ \E at \in {"pause_source", "pause_plan", "script"} : GoesTo(at)
<1>1. handler \in HandlerType /\ handler.at = "plan" /\ Current
  BY DEF TypeInv, TypeOK, HandlerType, Plan, Snapshot, Working, Current
<1>2. handler.meta \in MetaType
  BY <1>1 DEF HandlerType
<1> DEFINE notes == IF TheJob.resume = "none" THEN 0 ELSE handler.meta.notes
           new == [notes |-> notes, edit |-> 0]
<1>3. PICK at \in {"pause_source", "pause_plan", "script"} :
        handler' = [handler EXCEPT !.at = at, !.meta.plan = IF at = "pause_source" THEN @ ELSE new]
  BY <1>1 DEF Plan
<1>4. PICK plan :
        handler' = [handler EXCEPT !.at = at, !.meta = [handler.meta EXCEPT !.plan = plan]]
  BY <1>3
<1> DEFINE meta == [handler.meta EXCEPT !.plan = plan]
<1>5. meta.writer = handler.meta.writer
  BY <1>2 DEF MetaType
<1> HIDE DEF meta
<1>6. /\ handler'.at = at /\ handler'.outcome = handler.outcome /\ handler'.meta = meta
      /\ handler'.revision = handler.revision /\ handler'.text = handler.text
  BY <1>1, <1>4 DEF HandlerType, meta
<1> QED  BY <1>1, <1>5, <1>6 DEF SnapshotKept, GoesTo, Plan

\* A pause opens the version for review and ends the handler.
LEMMA PauseEffect ==
  ASSUME TypeInv, Snapshot, PauseForSource \/ PauseForPlan
  PROVE  /\ handler.at \in {"pause_source", "pause_plan"} /\ ContentKept /\ scripts' = scripts
         /\ version'.status = "awaiting_review"
         /\ version'.meta.writer = version.meta.writer
         /\ \E o \in {"source_review", "plan_review"} : IsOver(o)
<1>1. /\ handler \in HandlerType /\ version \in VersionType /\ Current
      /\ handler.at \in {"pause_source", "pause_plan"}
      /\ handler.meta.writer = version.meta.writer
  BY DEF TypeInv, TypeOK, HandlerType, VersionType, PauseForSource, PauseForPlan, Snapshot,
         Working, Current
<1>2. handler.meta \in MetaType
  BY <1>1 DEF HandlerType
<1>3. PICK m \in {handler.meta, [handler.meta EXCEPT !.stage = "source"]},
           o \in {"source_review", "plan_review"} :
        version' = [version EXCEPT !.status = "awaiting_review", !.meta = m] /\ Ends(o)
  BY <1>1 DEF PauseForSource, PauseForPlan, Cas
<1>4. m.writer = handler.meta.writer
  BY <1>2 DEF MetaType
<1>5. IsOver(o)
  BY <1>3, EndsHandler DEF IsOver
<1>6. ContentKept /\ version'.status = "awaiting_review" /\ version'.meta = m
  BY <1>1, <1>3 DEF VersionType, ContentKept
<1> QED  BY <1>1, <1>4, <1>5, <1>6 DEF PauseForSource, PauseForPlan

\* Writing the screenplay: a new revision and text, signed by the job, counted once.
LEMMA WriteEffect ==
  ASSUME TypeInv, Snapshot, WriteScript
  PROVE  /\ handler.at = "script" /\ GoesTo("build") /\ handler.job \in JobIds
         /\ version'.revision = version.revision + 1 /\ version'.text = version.text + 1
         /\ version'.built = version.built /\ version'.film = version.film
         /\ version'.status = "building"
         /\ version'.meta.writer = [job |-> handler.job, revision |-> version'.revision]
         /\ handler'.revision = version'.revision /\ handler'.text = version'.text
         /\ handler'.meta = version'.meta
         /\ scripts' = [scripts EXCEPT ![handler.job] = @ + 1]
<1>1. /\ handler \in HandlerType /\ version \in VersionType /\ Current
      /\ handler.at = "script" /\ handler.revision = version.revision
      /\ handler.job \in JobIds
  BY DEF TypeInv, TypeOK, HandlerType, VersionType, WriteScript, Snapshot, Working, Current,
         HandlerRuns
<1> DEFINE new == handler.revision + 1
           text == version.text + 1
           meta == Signed(new)
<1>2. new \in Nat
  BY <1>1 DEF HandlerType
<1>3. meta.writer = [job |-> handler.job, revision |-> new]
  BY <1>1, <1>2, SignedRow
<1>4. /\ version' = [version EXCEPT !.status = "building", !.revision = new,
                       !.text = text, !.meta = meta]
      /\ handler' = [handler EXCEPT !.at = "build", !.revision = new, !.text = text, !.meta = meta]
      /\ scripts' = [scripts EXCEPT ![handler.job] = @ + 1]
  BY <1>1 DEF WriteScript, Cas
<1>5. new = version.revision + 1 /\ text = version.text + 1
  BY <1>1
<1> HIDE DEF new, text, meta
<1>6. /\ version'.revision = new /\ version'.text = text /\ version'.meta = meta
      /\ version'.built = version.built /\ version'.film = version.film
      /\ version'.status = "building"
  BY <1>1, <1>4 DEF VersionType
<1>7. /\ handler'.at = "build" /\ handler'.outcome = handler.outcome
      /\ handler'.revision = new /\ handler'.text = text /\ handler'.meta = meta
  BY <1>1, <1>4 DEF HandlerType
<1> QED  BY <1>1, <1>3, <1>4, <1>5, <1>6, <1>7 DEF GoesTo

\* A finished build makes the version ready and notes the text it filmed, or changes neither.
LEMMA FinishEffect ==
  ASSUME TypeInv, Snapshot, FinishBuild
  PROVE  /\ handler.at = "build" /\ IsOver("succeeded") /\ scripts' = scripts
         /\ version'.revision = version.revision /\ version'.text = version.text
         /\ version'.status = "ready"
         /\ version'.meta.writer = version.meta.writer
         /\ \/ version'.film = version.text /\ version'.built \in {version.built, version.revision}
            \/ version'.film = version.film /\ version'.built = version.built
<1>1. /\ handler \in HandlerType /\ version \in VersionType /\ Current
      /\ handler.at = "build" /\ handler.revision = version.revision
      /\ handler.text = version.text /\ handler.meta.writer = version.meta.writer
  BY DEF TypeInv, TypeOK, HandlerType, VersionType, FinishBuild, Snapshot, Working, Current
<1>2. PICK timeline \in BOOLEAN, complete \in BOOLEAN :
        /\ version' = [version EXCEPT !.status = "ready", !.meta = handler.meta,
             !.film = IF timeline THEN handler.text ELSE version.film,
             !.built = IF timeline /\ complete THEN handler.revision ELSE version.built]
        /\ Ends("succeeded")
  BY <1>1 DEF FinishBuild, Cas
<1>3. IsOver("succeeded")
  BY <1>2, EndsHandler DEF IsOver
<1>4. /\ version'.revision = version.revision /\ version'.text = version.text
      /\ version'.status = "ready" /\ version'.meta = handler.meta
      /\ version'.film = (IF timeline THEN handler.text ELSE version.film)
      /\ version'.built = (IF timeline /\ complete THEN handler.revision ELSE version.built)
  BY <1>1, <1>2 DEF VersionType
<1> QED  BY <1>1, <1>3, <1>4 DEF FinishBuild

\* Failing settles the version and ends the handler with an outcome of a failure.
LEMMA FailEffect ==
  ASSUME TypeInv, Fail
  PROVE  /\ handler.at \in Working /\ StatusSettles /\ scripts' = scripts
         /\ \E o \in {"retry", "failed", "cancelled"} : IsOver(o)
<1>1. \E o \in {"retry", "failed", "cancelled"} : Ends(o)
  BY DEF Fail
<1>2. \E o \in {"retry", "failed", "cancelled"} : IsOver(o)
  BY <1>1, EndsHandler DEF IsOver
<1> QED  BY <1>2, FailTypes DEF Fail

-----------------------------------------------------------------------------
(* The shapes of a step *)

\* The handler stays as it is, is gone or is new.
Rests ==
  \/ handler' = handler
  \/ handler'.at \in {"idle", "load"} /\ handler'.outcome = "none"

QueueShape ==
  /\ Rests
  /\ UNCHANGED <<version, jobs>> \/ \E j \in JobIds : Turns(j)
  /\ UNCHANGED <<requests, asked, approved, scripts>>

RetryShape ==
  /\ \E j, n \in JobIds :
       /\ jobs[j].status \in Retryable
       /\ Adds(n, jobs[j].kind, jobs[j].base, jobs[j].resume, j)
  /\ handler.at = "idle"
  /\ UNCHANGED <<version, handler, requests, asked, approved, scripts>>

StartShape ==
  /\ \E q \in Requests : \E row : StartRow(q, row)
  /\ UNCHANGED <<version, jobs, handler, asked, approved, scripts>>

\* The review of job old is approved: job n continues it.
Approval(q) ==
  LET old == requests[q].job IN
  /\ requests[q].op = "approve" /\ handler.at = "idle"
  /\ version.status = "awaiting_review"
  /\ version' \in VersionType /\ version'.status = "generating"
  /\ ContentKept /\ version'.meta = version.meta
  /\ approved' = version.meta.plan
  /\ old \in JobIds /\ jobs[old].status = "awaiting_review"
  /\ \E n \in JobIds : Adds(n, "generate_lecture", requests[q].revision, jobs[old].result, old)

\* A screenplay is saved, or a job is enqueued for one, or both.
Change(q) ==
  /\ requests[q].op = "change" /\ handler.at = "idle"
  /\ approved' = approved
  /\ \/ UNCHANGED jobs /\ TextSaved(q)
     \/ /\ TextSaved(q)
        /\ \E n \in JobIds : Adds(n, "build_assets", version.revision + 1, "none", 0)
     \/ /\ UNCHANGED version
        /\ \E n \in JobIds, kind \in {"build_assets", "regenerate_scene"} :
             Adds(n, kind, requests[q].revision, "none", 0)

MetaSave(q) ==
  /\ requests[q].op \in {"save_plan", "save_source"} /\ MetaSaved(q)
  /\ UNCHANGED <<jobs, approved>>

CommitShape ==
  /\ \E q \in Requests :
       /\ requests' = [requests EXCEPT ![q] = NoRequest]
       /\ \/ UNCHANGED <<version, jobs, approved>>
          \/ MetaSave(q) \/ Approval(q) \/ Change(q)
  /\ UNCHANGED <<handler, asked, scripts>>

\* Where a job is added no handler works.
LEMMA AddIdle ==
  ASSUME TypeInv, NEW n \in JobIds, NEW kind, NEW base, NEW resume, NEW old,
         Adds(n, kind, base, resume, old)
  PROVE  handler.at = "idle"
<1>1. \A k \in JobIds : jobs[k].status = "running" => k = old
  BY DEF Adds, Active
<1>2. old \in JobIds => jobs[old].status # "running"
  BY DEF Adds, Retryable
<1> QED  BY <1>1, <1>2 DEF TypeInv, HandlerRuns

\* Every commit of a request has one of the shapes.
LEMMA CommitHasShape ==
  ASSUME TypeInv, NEW q \in Requests, Commits(q)
  PROVE  CommitShape
<1>1. requests' = [requests EXCEPT ![q] = NoRequest] /\ UNCHANGED <<handler, asked, scripts>>
  BY DEF Commits, Done
<1>2. CASE SavePlan(q) \/ SaveSource(q)
  BY <1>1, <1>2, SaveEffect DEF CommitShape, MetaSave
<1>3. CASE Approve(q)
  <2>1. requests[q].op = "approve"
    BY <1>3 DEF Approve
  <2>2. UNCHANGED <<version, jobs, approved>> \/ Approval(q)
    BY <1>3, <2>1, ApproveEffect, AddIdle DEF Approval, ContentKept
  <2> QED  BY <1>1, <2>2 DEF CommitShape
<1>4. CASE SaveScreenplay(q) \/ NewVisual(q) \/ EnqueueWork(q)
  <2>1. TextSaved(q) => handler.at = "idle"
    BY DEF TextSaved, TypeInv, HandlerRuns, Active
  <2>2. UNCHANGED <<version, jobs, approved>> \/ Change(q)
    BY <1>4, <2>1, ChangeEffect, AddIdle DEF Change
  <2> QED  BY <1>1, <2>2 DEF CommitShape
<1> QED  BY <1>2, <1>3, <1>4 DEF Commits

\* Every step is a handler step or has one of the shapes; the inductions look at these only.
LEMMA StepHasShape ==
  ASSUME TypeInv, [Next]_vars
  PROVE  \/ UNCHANGED vars
         \/ Handler \/ QueueShape \/ RetryShape \/ StartShape \/ CommitShape
<1>1. CASE Persist
  <2>1. handler.job \in JobIds
    BY <1>1, PersistTurns DEF Turns, Moves, Closes
  <2> QED  BY <1>1, <2>1, PersistTurns DEF QueueShape, Rests, NoHandler, Turns
<1>2. CASE Crash
  BY <1>2 DEF Crash, QueueShape, Rests, NoHandler
<1>3. ASSUME NEW j \in JobIds, Claim(j) PROVE QueueShape
  <2>1. handler' = [NoHandler EXCEPT !.at = "load", !.job = j]
    BY <1>3 DEF Claim
  <2> QED  BY <1>3, <2>1, ClaimTurns DEF QueueShape, Rests, NoHandler, Turns
<1>4. ASSUME NEW j \in JobIds, Recover(j) \/ RequestCancel(j) PROVE QueueShape
  BY <1>4, RecoverTurns, CancelTurns DEF QueueShape, Rests, Turns
<1>5. ASSUME NEW j \in JobIds, RetryJob(j) PROVE RetryShape
  <2>1. PICK n \in JobIds : Adds(n, jobs[j].kind, jobs[j].base, jobs[j].resume, j)
    BY <1>5, RetryAdds
  <2> QED  BY <1>5, <2>1, AddIdle DEF RetryJob, RetryShape
<1>6. ASSUME NEW q \in Requests, Starts(q) PROVE StartShape
  BY <1>6, StartEffect DEF StartShape, Starts
<1> QED  BY <1>1, <1>2, <1>3, <1>4, <1>5, <1>6, CommitHasShape DEF Next

-----------------------------------------------------------------------------

(* The history of the version: how far it came, and who wrote it *)

\* Every text has its revision; the first one is the version without a text.
TextIsNew == version.text = version.revision - 1

\* Only a version without a text is reviewed by a generation.
AwaitingFirst == version.status = "awaiting_review" => version.revision = 1

\* The base revisions: a generation starts from the first, a build or a new
\* scene from a text. Only generations continue after a review.
Bases == \A j \in JobIds : jobs[j].status # "absent" =>
  /\ jobs[j].kind = "generate_lecture" => jobs[j].base = 1
  /\ jobs[j].kind \in {"build_assets", "regenerate_scene"} => jobs[j].base >= 2
  /\ jobs[j].resume # "none" => jobs[j].kind = "generate_lecture"

\* A review was read before the first text, a change reads a text.
RequestsKnown == \A q \in Requests :
  /\ requests[q].op \in {"save_plan", "save_source", "approve"} =>
       requests[q].revision = 1 /\ requests[q].meta.writer = NoWriter
  /\ requests[q].op = "change" => requests[q].revision >= 2

\* The writer of the version is a known job that raised its base revision.
Writer ==
  version.meta.writer # NoWriter =>
    /\ version.meta.writer.job \in JobIds
    /\ jobs[version.meta.writer.job].status # "absent"
    /\ version.meta.writer.revision >= 2
    /\ version.meta.writer.revision <= version.revision
    /\ jobs[version.meta.writer.job].kind # "translate" =>
         version.meta.writer.revision = jobs[version.meta.writer.job].base + 1

Unwritten == {"begin", "plan", "pause_source", "pause_plan", "script"}

\* Where a handler can be.
Place ==
  /\ handler.at \in Unwritten /\ ~Translates => handler.revision = TheJob.base
  /\ handler.at \in {"plan", "pause_source", "pause_plan"} => Generates
  /\ handler.at \in {"build", "resume"} => handler.revision >= 2
  /\ handler.outcome \in {"source_review", "plan_review"} => Generates
  /\ handler.outcome # "none" => handler.at = "ended"

\* Only generations await a review.
AwaitGen == \A j \in JobIds :
  jobs[j].status = "awaiting_review" => jobs[j].kind = "generate_lecture"

HistInv ==
  TypeInv /\ Snapshot /\ TextIsNew /\ AwaitingFirst /\ Bases /\ RequestsKnown
    /\ Writer /\ Place /\ AwaitGen

\* A version under review was written by nobody.
LEMMA AwaitingUnwritten ==
  HistInv /\ version.status = "awaiting_review" =>
    version.revision = 1 /\ version.meta.writer = NoWriter
<1>1. HistInv => version.meta.writer.revision \in Nat
  <2>1. HistInv => version \in VersionType
    BY DEF HistInv, TypeInv, TypeOK, VersionType
  <2> QED  BY <2>1 DEF VersionType, MetaType
<1> QED  BY <1>1 DEF HistInv, AwaitingFirst, Writer

\* A metadata save neither adds nor removes a writer mark: there is none at a review.
LEMMA SavedUnwritten ==
  ASSUME HistInv, NEW q \in Requests, MetaSave(q)
  PROVE  version'.meta.writer = version.meta.writer /\ version'.meta.writer = NoWriter
<1>1. requests[q].meta.writer = NoWriter
  BY DEF HistInv, RequestsKnown, MetaSave
<1> QED  BY <1>1, AwaitingUnwritten DEF MetaSave, MetaSaved

\* Every step keeps Snapshot: no request changes the revision while a handler works.
LEMMA SnapshotStep == HistInv /\ [Next]_vars => Snapshot'
<1> SUFFICES ASSUME HistInv, [Next]_vars PROVE Snapshot'
  OBVIOUS
<1>0. TypeInv /\ Snapshot
  BY DEF HistInv
<1>1. CASE Handler
  <2>1. CASE Load
    BY <1>0, <2>1, LoadEffect DEF Snapshot, GoesTo, IsOver, Working
  <2>2. CASE Begin
    BY <1>0, <2>2, BeginEffect DEF Snapshot, GoesTo, ContentKept, SnapshotKept, Working
  <2>3. CASE ResumeBuild
    BY <1>0, <2>3, ResumeEffect DEF Snapshot, ContentKept, SnapshotKept, Working
  <2>4. CASE Plan
    BY <1>0, <2>4, PlanEffect DEF Snapshot, SnapshotKept, Working
  <2>5. CASE PauseForSource \/ PauseForPlan
    BY <1>0, <2>5, PauseEffect DEF Snapshot, IsOver, Working
  <2>6. CASE WriteScript
    BY <1>0, <2>6, WriteEffect DEF Snapshot
  <2>7. CASE FinishBuild
    BY <1>0, <2>7, FinishEffect DEF Snapshot, IsOver, Working
  <2>8. CASE Fail
    BY <1>0, <2>8, FailEffect DEF Snapshot, IsOver, Working
  <2> QED  BY <1>1, <2>1, <2>2, <2>3, <2>4, <2>5, <2>6, <2>7, <2>8 DEF Handler
<1>2. CASE QueueShape
  BY <1>0, <1>2 DEF QueueShape, Rests, Turns, StatusSettles, Snapshot, Working
<1>3. CASE RetryShape \/ StartShape \/ UNCHANGED vars
  BY <1>0, <1>3 DEF RetryShape, StartShape, Snapshot, vars
<1>4. CASE CommitShape
  <2>1. UNCHANGED handler
    BY <1>4 DEF CommitShape
  <2>2. PICK q \in Requests : UNCHANGED version \/ MetaSave(q) \/ Approval(q) \/ Change(q)
    BY <1>4 DEF CommitShape
  <2>3. CASE UNCHANGED version
    BY <1>0, <2>1, <2>3 DEF Snapshot
  <2>4. CASE handler.at = "idle"
    BY <2>1, <2>4 DEF Snapshot, Working
  <2>5. CASE MetaSave(q)
    BY <1>0, <2>1, <2>5, SavedUnwritten DEF Snapshot, MetaSave, MetaSaved
  <2> QED  BY <2>2, <2>3, <2>4, <2>5 DEF Approval, Change
<1> QED  BY <1>0, <1>1, <1>2, <1>3, <1>4, StepHasShape

\* Every step keeps TextIsNew and AwaitingFirst: the text grows with the revision.
LEMMA TextStep == HistInv /\ [Next]_vars => TextIsNew' /\ AwaitingFirst'
<1> SUFFICES ASSUME HistInv, [Next]_vars PROVE TextIsNew' /\ AwaitingFirst'
  OBVIOUS
<1>0. /\ TypeInv /\ Snapshot /\ TextIsNew /\ AwaitingFirst
      /\ version.revision \in Nat /\ version.text \in Nat
  BY DEF HistInv, TypeInv, TypeOK
<1> USE DEF TextIsNew, AwaitingFirst
<1>1. CASE Handler
  <2>1. CASE Load
    BY <1>0, <2>1, LoadEffect
  <2>2. CASE Begin
    BY <1>0, <2>2, BeginEffect DEF ContentKept
  <2>3. CASE ResumeBuild
    BY <1>0, <2>3, ResumeEffect DEF ContentKept
  <2>4. CASE Plan
    BY <1>0, <2>4, PlanEffect
  <2>5. CASE PauseForSource \/ PauseForPlan
    <3>1. handler.at \in {"pause_source", "pause_plan"} /\ ContentKept
      BY <1>0, <2>5, PauseEffect
    <3>2. Generates /\ handler.revision = TheJob.base
      BY <3>1 DEF HistInv, Place, Unwritten, Generates, Translates
    <3>3. handler.job \in JobIds /\ jobs[handler.job].status # "absent"
      BY <3>1 DEF HistInv, TypeInv, HandlerRuns
    <3>4. TheJob.base = 1
      BY <3>2, <3>3 DEF HistInv, Bases, Generates, TheJob
    <3>5. handler.revision = version.revision
      BY <1>0, <3>1 DEF Snapshot, Working
    <3> QED  BY <1>0, <3>1, <3>2, <3>4, <3>5 DEF ContentKept
  <2>6. CASE WriteScript
    BY <1>0, <2>6, WriteEffect
  <2>7. CASE FinishBuild
    BY <1>0, <2>7, FinishEffect
  <2>8. CASE Fail
    BY <1>0, <2>8, FailEffect DEF StatusSettles
  <2> QED  BY <1>1, <2>1, <2>2, <2>3, <2>4, <2>5, <2>6, <2>7, <2>8 DEF Handler
<1>2. CASE QueueShape
  BY <1>0, <1>2 DEF QueueShape, Turns, StatusSettles
<1>3. CASE RetryShape \/ StartShape \/ UNCHANGED vars
  BY <1>0, <1>3 DEF RetryShape, StartShape, vars
<1>4. CASE CommitShape
  <2>1. PICK q \in Requests : UNCHANGED version \/ MetaSave(q) \/ Approval(q) \/ Change(q)
    BY <1>4 DEF CommitShape
  <2>2. CASE UNCHANGED version
    BY <1>0, <2>2
  <2>3. CASE MetaSave(q)
    BY <1>0, <2>3 DEF MetaSave, MetaSaved
  <2>4. CASE Approval(q)
    BY <1>0, <2>4 DEF Approval, ContentKept
  <2>5. CASE TextSaved(q)
    <3>1. requests[q].revision >= 2
      BY <2>5 DEF HistInv, RequestsKnown, TextSaved
    <3> QED  BY <1>0, <2>5, <3>1 DEF TextSaved
  <2> QED  BY <2>1, <2>2, <2>3, <2>4, <2>5 DEF Change
<1> QED  BY <1>0, <1>1, <1>2, <1>3, <1>4, StepHasShape

\* What a step does to the jobs: they keep what they were enqueued for.
LEMMA TasksKept ==
  ASSUME TypeInv,
         \/ UNCHANGED jobs
         \/ \E j \in JobIds : Turns(j)
         \/ \E n \in JobIds : \E kind, base, resume, old : Adds(n, kind, base, resume, old)
  PROVE  \A k \in JobIds : jobs[k].status # "absent" => SameTask(k) /\ jobs'[k].status # "absent"
<1>1. CASE UNCHANGED jobs
  BY <1>1 DEF SameTask
<1>2. ASSUME NEW j \in JobIds, Turns(j)
      PROVE  \A k \in JobIds : jobs[k].status # "absent" => SameTask(k) /\ jobs'[k].status # "absent"
  BY <1>2 DEF Turns, Moves, Closes, OthersKept, SameTask, Active, Retryable
<1>3. ASSUME NEW n \in JobIds, NEW kind, NEW base, NEW resume, NEW old, Adds(n, kind, base, resume, old)
      PROVE  \A k \in JobIds : jobs[k].status # "absent" => SameTask(k) /\ jobs'[k].status # "absent"
  BY <1>3 DEF Adds, SameTask, Retryable
<1> QED  BY <1>1, <1>2, <1>3

\* No step changes what a job was enqueued for.
LEMMA TasksKeptByStep ==
  ASSUME TypeInv, [Next]_vars
  PROVE  \A k \in JobIds : jobs[k].status # "absent" => SameTask(k) /\ jobs'[k].status # "absent"
<1>1. CASE UNCHANGED jobs
  BY <1>1, TasksKept
<1>2. CASE Handler
  BY <1>1, <1>2, TypeHandler DEF HandlerStays
<1>3. CASE UNCHANGED vars \/ QueueShape \/ RetryShape \/ StartShape
  BY <1>3, TasksKept DEF vars, QueueShape, RetryShape, StartShape
<1>4. CASE CommitShape
  BY <1>4, TasksKept DEF CommitShape, MetaSave, Approval, Change
<1> QED  BY <1>2, <1>3, <1>4, StepHasShape

\* A new job is one of the four kinds, with the base that it needs.
NewBases(kind, base, resume) ==
  /\ kind = "generate_lecture" => base = 1
  /\ kind \in {"build_assets", "regenerate_scene"} => base >= 2
  /\ resume # "none" => kind = "generate_lecture"

\* A new job whose base is known keeps Bases.
LEMMA BasesAdd ==
  ASSUME HistInv, NEW n \in JobIds, NEW kind, NEW base, NEW resume, NEW old,
         Adds(n, kind, base, resume, old), NewBases(kind, base, resume)
  PROVE  Bases'
<1>1. /\ jobs'[n].kind = kind /\ jobs'[n].base = base /\ jobs'[n].resume = resume
      /\ \A k \in JobIds : k # n /\ k # old => jobs'[k] = jobs[k]
      /\ old \in JobIds => SameTask(old) /\ jobs[old].status # "absent"
  BY DEF Adds, NewRow, Retryable
<1> QED  BY <1>1 DEF HistInv, Bases, NewBases, SameTask

\* Every step keeps Bases and AwaitGen.
LEMMA BasesStep == HistInv /\ [Next]_vars => Bases' /\ AwaitGen'
<1> SUFFICES ASSUME HistInv, [Next]_vars PROVE Bases' /\ AwaitGen'
  OBVIOUS
<1>0. TypeInv /\ Bases /\ AwaitGen /\ Place
  BY DEF HistInv
<1>1. CASE UNCHANGED jobs
  BY <1>0, <1>1 DEF Bases, AwaitGen
<1>2. CASE QueueShape
  <2>1. CASE \E j \in JobIds : Turns(j)
    <3>1. PICK j \in JobIds : Turns(j)
      BY <2>1
    <3>2. /\ \A k \in JobIds : k # j => jobs'[k] = jobs[k]
          /\ SameTask(j) /\ jobs[j].status # "absent"
          /\ jobs'[j].status = "awaiting_review" =>
               handler.job = j /\ handler.outcome \in {"source_review", "plan_review"}
      BY <3>1 DEF Turns, Moves, Closes, OthersKept, Active, Retryable
    <3>3. Bases'
      BY <1>0, <3>2 DEF Bases, SameTask
    <3>4. AwaitGen'
      BY <1>0, <3>2 DEF AwaitGen, SameTask, Place, Generates, TheJob
    <3> QED  BY <3>3, <3>4
  <2> QED  BY <1>1, <1>2, <2>1 DEF QueueShape
<1>3. ASSUME NEW n \in JobIds, NEW kind, NEW base, NEW resume, NEW old,
             Adds(n, kind, base, resume, old)
      PROVE  AwaitGen'
  BY <1>0, <1>3 DEF AwaitGen, Adds, NewRow, Retryable
<1>4. CASE RetryShape
  <2>1. PICK j \in JobIds, n \in JobIds :
          jobs[j].status \in Retryable /\ Adds(n, jobs[j].kind, jobs[j].base, jobs[j].resume, j)
    BY <1>4 DEF RetryShape
  <2>2. NewBases(jobs[j].kind, jobs[j].base, jobs[j].resume)
    BY <1>0, <2>1 DEF Bases, NewBases, Retryable
  <2> QED  BY <1>3, <2>1, <2>2, BasesAdd
<1>5. CASE CommitShape
  <2>1. PICK q \in Requests : UNCHANGED jobs \/ Approval(q) \/ Change(q)
    BY <1>5 DEF CommitShape, MetaSave
  <2>2. CASE Approval(q)
    <3>1. requests[q].revision = 1
      BY <2>2 DEF HistInv, RequestsKnown, Approval
    <3>2. \A resume : NewBases("generate_lecture", 1, resume)
      BY DEF NewBases
    <3> QED  BY <1>3, <2>2, <3>1, <3>2, BasesAdd DEF Approval
  <2>3. CASE Change(q)
    <3>1. requests[q].revision >= 2
      BY <2>3 DEF HistInv, RequestsKnown, Change
    <3>2. version.revision \in Nat \ {0}
      BY <1>0 DEF TypeInv, TypeOK
    <3>3. /\ NewBases("build_assets", version.revision + 1, "none")
          /\ \A kind \in {"build_assets", "regenerate_scene"} :
               NewBases(kind, requests[q].revision, "none")
      BY <3>1, <3>2 DEF NewBases
    <3> QED  BY <1>1, <1>3, <2>3, <3>3, BasesAdd DEF Change
  <2> QED  BY <1>1, <2>1, <2>2, <2>3
<1>6. CASE Handler \/ StartShape \/ UNCHANGED vars
  BY <1>0, <1>1, <1>6, TypeHandler DEF HandlerStays, StartShape, vars
<1> QED  BY <1>0, <1>2, <1>4, <1>5, <1>6, StepHasShape

\* Every step keeps RequestsKnown.
LEMMA RequestsStep == HistInv /\ [Next]_vars => RequestsKnown'
<1> SUFFICES ASSUME HistInv, [Next]_vars PROVE RequestsKnown'
  OBVIOUS
<1>0. TypeInv /\ RequestsKnown /\ TextIsNew /\ version.revision \in Nat \ {0} /\ version.text \in Nat
      /\ requests \in [Requests -> RequestType]
  BY DEF HistInv, TypeInv, TypeOK, RequestType
<1>1. CASE UNCHANGED requests
  BY <1>0, <1>1 DEF RequestsKnown
<1>2. CASE StartShape
  <2>1. PICK q \in Requests : \E row : StartRow(q, row)
    BY <1>2 DEF StartShape
  <2>2. PICK row : StartRow(q, row)
    BY <2>1
  <2>3. row.op \in {"save_plan", "save_source", "approve"} =>
          row.revision = 1 /\ row.meta.writer = NoWriter
    BY <2>2, AwaitingUnwritten DEF StartRow, NewMeta
  <2>4. row.op = "change" => row.revision >= 2
    BY <1>0, <2>2 DEF StartRow, TextIsNew
  <2>5. requests' = [requests EXCEPT ![q] = row]
    BY <2>2 DEF StartRow
  <2> QED  BY <1>0, <2>3, <2>4, <2>5 DEF RequestsKnown
<1>3. CASE CommitShape
  <2>1. PICK q \in Requests : requests' = [requests EXCEPT ![q] = NoRequest]
    BY <1>3 DEF CommitShape
  <2>2. NoRequest.op = "none"
    BY DEF NoRequest
  <2> QED  BY <1>0, <2>1, <2>2 DEF RequestsKnown
<1>4. CASE Handler \/ UNCHANGED vars \/ QueueShape \/ RetryShape
  BY <1>0, <1>1, <1>4, TypeHandler DEF HandlerStays, vars, QueueShape, RetryShape
<1> QED  BY <1>0, <1>2, <1>3, <1>4, StepHasShape

\* A text is new because a handler writes it or because a teacher saves it,
\* and only a handler signs.
LEMMA WhoWrites ==
  ASSUME HistInv, [Next]_vars
  PROVE  \/ WriteScript
         \/ /\ version'.meta.writer = version.meta.writer /\ scripts' = scripts
            /\ \/ version'.revision = version.revision /\ version'.text = version.text
               \/ \E q \in Requests : /\ TextSaved(q) /\ requests'[q].op = "none"
                                      /\ UNCHANGED handler
<1>0. TypeInv /\ Snapshot /\ requests \in [Requests -> RequestType]
  BY DEF HistInv, TypeInv, TypeOK, RequestType
<1>1. CASE Load
  BY <1>0, <1>1, LoadEffect
<1>2. CASE Begin
  BY <1>0, <1>2, BeginEffect DEF ContentKept
<1>3. CASE ResumeBuild
  BY <1>0, <1>3, ResumeEffect DEF ContentKept
<1>4. CASE Plan
  BY <1>0, <1>4, PlanEffect
<1>5. CASE PauseForSource \/ PauseForPlan
  BY <1>0, <1>5, PauseEffect DEF ContentKept
<1>6. CASE FinishBuild
  BY <1>0, <1>6, FinishEffect
<1>7. CASE Fail
  BY <1>0, <1>7, FailEffect DEF StatusSettles
<1>8. CASE QueueShape
  BY <1>8 DEF QueueShape, Turns, StatusSettles
<1>9. CASE RetryShape \/ StartShape \/ UNCHANGED vars
  BY <1>9 DEF RetryShape, StartShape, vars
<1>10. CASE CommitShape
  <2>1. PICK q \in Requests :
          /\ requests' = [requests EXCEPT ![q] = NoRequest]
          /\ UNCHANGED version \/ MetaSave(q) \/ Approval(q) \/ Change(q)
    BY <1>10 DEF CommitShape
  <2>2. CASE MetaSave(q)
    BY <1>10, <2>2, SavedUnwritten DEF CommitShape, MetaSave, MetaSaved
  <2>3. CASE UNCHANGED version \/ Approval(q)
    BY <1>10, <2>3 DEF CommitShape, Approval, ContentKept
  <2>4. CASE TextSaved(q)
    <3>1. requests'[q].op = "none"
      BY <1>0, <2>1 DEF NoRequest
    <3>2. UNCHANGED <<handler, scripts>>
      BY <1>10 DEF CommitShape
    <3> QED  BY <2>4, <3>1, <3>2 DEF TextSaved
  <2> QED  BY <2>1, <2>2, <2>3, <2>4 DEF Change
<1> QED  BY <1>0, <1>1, <1>2, <1>3, <1>4, <1>5, <1>6, <1>7, <1>8, <1>9, <1>10, StepHasShape
         DEF Handler

\* Every step keeps Writer.
LEMMA WriterStep == HistInv /\ [Next]_vars => Writer'
<1> SUFFICES ASSUME HistInv, [Next]_vars PROVE Writer'
  OBVIOUS
<1>0. /\ TypeInv /\ Snapshot /\ Writer /\ Place
      /\ version.revision \in Nat \ {0} /\ version.meta.writer.revision \in Nat
  <2>1. TypeInv /\ version \in VersionType
    BY DEF HistInv, TypeInv, TypeOK, VersionType
  <2> QED  BY <2>1 DEF HistInv, VersionType, MetaType
<1>1. CASE WriteScript
  <2> DEFINE j == handler.job
  <2>1. /\ j \in JobIds /\ handler.at = "script"
        /\ version'.revision = version.revision + 1
        /\ version'.meta.writer = [job |-> j, revision |-> version'.revision]
    BY <1>0, <1>1, WriteEffect
  <2>2. jobs' = jobs /\ jobs[j].status # "absent"
    BY <1>0, <1>1, <2>1, WriteTypes DEF TypeInv, HandlerRuns, HandlerStays
  <2>3. jobs[j].kind # "translate" => version.revision = jobs[j].base
    BY <1>0, <2>1 DEF Place, Unwritten, Snapshot, Working, Translates, TheJob
  <2> QED  BY <1>0, <2>1, <2>2, <2>3 DEF Writer
<1>2. CASE /\ version'.meta.writer = version.meta.writer
           /\ version'.revision \in {version.revision, version.revision + 1}
  <2> DEFINE w == version.meta.writer
  <2>1. w # NoWriter => SameTask(w.job) /\ jobs'[w.job].status # "absent"
    BY <1>0, TasksKeptByStep DEF Writer
  <2>2. w.revision <= version.revision => w.revision <= version'.revision
    BY <1>0, <1>2
  <2> QED  BY <1>0, <1>2, <2>1, <2>2 DEF Writer, SameTask
<1> QED  BY <1>0, <1>1, <1>2, WhoWrites DEF TextSaved

\* Every step keeps Place.
LEMMA PlaceStep == HistInv /\ [Next]_vars => Place'
<1> SUFFICES ASSUME HistInv, [Next]_vars PROVE Place'
  OBVIOUS
<1>0. /\ TypeInv /\ Snapshot /\ Writer /\ Place
      /\ version.revision \in Nat \ {0} /\ version.meta.writer.revision \in Nat
  <2>1. TypeInv /\ version \in VersionType
    BY DEF HistInv, TypeInv, TypeOK, VersionType
  <2> QED  BY <2>1 DEF HistInv, VersionType, MetaType
<1>1. CASE Handler
  <2>1. UNCHANGED jobs /\ handler'.job = handler.job /\ handler.job \in JobIds
        /\ jobs[handler.job].status # "absent"
    BY <1>0, <1>1, TypeHandler DEF HandlerStays, TypeInv, HandlerRuns
  <2>2. Generates' = Generates /\ Translates' = Translates /\ TheJob' = TheJob
    BY <2>1 DEF Generates, Translates, TheJob
  <2>3. Generates => ~Translates
    BY DEF Generates, Translates
  <2>4. handler.at # "ended" => handler.outcome = "none"
    BY <1>0 DEF Place
  <2>5. ASSUME NEW o, IsOver(o), o \in {"source_review", "plan_review"} => Generates
        PROVE  Place'
    BY <2>2, <2>5 DEF Place, IsOver, Unwritten
  <2>6. CASE Load
    <3>1. WrittenByThisJob => version.revision >= 2
      <4>1. WrittenByThisJob => version.meta.writer # NoWriter
        BY <2>1 DEF WrittenByThisJob, NoWriter, JobIds
      <4> QED  BY <1>0, <4>1 DEF WrittenByThisJob, Writer
    <3>2. CASE IsOver("skipped")
      BY <2>5, <3>2
    <3>3. CASE GoesTo("begin")
      BY <1>0, <2>2, <2>4, <2>6, <3>3, LoadEffect DEF GoesTo, Place, IsOver, Unwritten
    <3>4. CASE GoesTo("resume")
      BY <1>0, <2>2, <2>4, <2>6, <3>1, <3>4, LoadEffect DEF GoesTo, Place, IsOver, Unwritten
    <3> QED  BY <1>0, <2>6, <3>2, <3>3, <3>4, LoadEffect
  <2>7. CASE Begin
    <3>1. handler.at = "begin" /\ handler'.revision = handler.revision
      BY <1>0, <2>7, BeginEffect DEF SnapshotKept
    <3>2. ~Translates => handler'.revision = TheJob.base
      BY <1>0, <3>1 DEF Place, Unwritten
    <3>3. TheJob.kind = "build_assets" => handler'.revision >= 2
      BY <2>1, <3>2 DEF Translates, HistInv, Bases, TheJob
    <3> QED  BY <1>0, <2>2, <2>4, <2>7, <3>1, <3>2, <3>3, BeginEffect DEF GoesTo, Place, Unwritten
  <2>8. CASE ResumeBuild
    BY <1>0, <2>2, <2>4, <2>8, ResumeEffect DEF GoesTo, Place, SnapshotKept, Unwritten
  <2>9. CASE Plan
    BY <1>0, <2>2, <2>3, <2>4, <2>9, PlanEffect DEF GoesTo, Place, SnapshotKept, Unwritten
  <2>10. CASE PauseForSource \/ PauseForPlan
    <3>1. Generates
      BY <1>0, <2>10, PauseEffect DEF Place
    <3> QED  BY <1>0, <2>5, <2>10, <3>1, PauseEffect
  <2>11. CASE WriteScript
    BY <1>0, <2>2, <2>4, <2>11, WriteEffect DEF GoesTo, Place, Unwritten
  <2>12. CASE FinishBuild
    BY <1>0, <2>5, <2>12, FinishEffect
  <2>13. CASE Fail
    BY <1>0, <2>5, <2>13, FailEffect
  <2> QED  BY <1>1, <2>6, <2>7, <2>8, <2>9, <2>10, <2>11, <2>12, <2>13 DEF Handler
<1>2. CASE handler' = handler
  <2>1. CASE handler.at = "idle"
    BY <1>0, <1>2, <2>1 DEF Place, Unwritten
  <2>2. CASE handler.at # "idle"
    <3>1. handler.job \in JobIds /\ jobs[handler.job].status # "absent"
      BY <1>0, <2>2 DEF TypeInv, HandlerRuns
    <3>2. SameTask(handler.job)
      BY <1>0, <3>1, TasksKeptByStep
    <3>3. Generates' = Generates /\ Translates' = Translates /\ TheJob'.base = TheJob.base
      BY <1>2, <3>2 DEF Generates, Translates, TheJob, SameTask
    <3> QED  BY <1>0, <1>2, <3>3 DEF Place
  <2> QED  BY <2>1, <2>2
<1>3. CASE handler'.at \in {"idle", "load"} /\ handler'.outcome = "none"
  BY <1>3 DEF Place, Unwritten
<1> QED  BY <1>0, <1>1, <1>2, <1>3, StepHasShape
         DEF QueueShape, Rests, RetryShape, StartShape, CommitShape, vars

\* The initial state satisfies HistInv.
LEMMA HistInit == Init => HistInv
<1> SUFFICES ASSUME Init PROVE HistInv
  OBVIOUS
<1>1. handler.at = "idle" /\ handler.outcome = "none"
  BY DEF Init, NoHandler
<1>2. Snapshot /\ Place
  BY <1>1 DEF Snapshot, Working, Place, Unwritten
<1>3. TextIsNew /\ AwaitingFirst /\ Writer
  BY DEF Init, NewVersion, NewMeta, TextIsNew, AwaitingFirst, Writer
<1>4. RequestsKnown
  BY DEF Init, NoRequest, RequestsKnown
<1>9. Bases /\ AwaitGen
  <2>1. PICK kind \in {"generate_lecture", "translate"}, base \in {0, 1} :
          NewRow(jobs[1], kind, base, "none") /\ (kind = "generate_lecture" => base = 1)
    BY InitJobs
  <2>2. \A j \in JobIds : j # 1 => jobs[j].status = "absent"
    BY InitJobs
  <2> QED  BY <2>1, <2>2 DEF Bases, AwaitGen, NewRow
<1> QED  BY <1>2, <1>3, <1>4, <1>9, TypeInit DEF HistInv

\* Every step keeps HistInv: one lemma per conjunct.
LEMMA HistStep == HistInv /\ [Next]_vars => HistInv'
<1> SUFFICES ASSUME HistInv, [Next]_vars PROVE HistInv'
  OBVIOUS
<1>1. TypeInv'
  BY TypeStep DEF HistInv
<1> QED  BY <1>1, SnapshotStep, TextStep, BasesStep, RequestsStep, WriterStep, PlaceStep DEF HistInv

\* HistInv holds in every reachable state.
THEOREM HistAlways == Spec => []HistInv
<1> QED  BY HistInit, HistStep, PTL DEF Spec

-----------------------------------------------------------------------------
(* NoLostEdit *)

\* Whatever the handlers and the requests do, nobody replaces a screenplay
\* that somebody else saved after he read it: the snapshot of a handler that
\* writes is current, and a request's save compares the revision it read.
THEOREM EditsAreKept == Spec => NoLostEdit
<1> DEFINE Kept ==
      version'.text # version.text =>
        \/ handler.at = "script" /\ handler.text = version.text
        \/ \E q \in Requests : /\ requests[q].op \in {"change"}
                               /\ requests'[q].op = "none"
                               /\ requests[q].revision = version.revision
<1>1. HistInv /\ [Next]_vars => Kept
  <2> SUFFICES ASSUME HistInv, [Next]_vars, version'.text # version.text
               PROVE  \/ handler.at = "script" /\ handler.text = version.text
                      \/ \E q \in Requests : /\ requests[q].op \in {"change"}
                                             /\ requests'[q].op = "none"
                                             /\ requests[q].revision = version.revision
    OBVIOUS
  <2>1. CASE WriteScript
    BY <2>1 DEF HistInv, Snapshot, Working, WriteScript
  <2>2. CASE \E q \in Requests : TextSaved(q) /\ requests'[q].op = "none"
    BY <2>2 DEF TextSaved
  <2> QED  BY <2>1, <2>2, WhoWrites
<1>2. Spec => [][Kept]_vars
  BY <1>1, HistAlways, PTL DEF Spec
<1> QED  BY <1>2 DEF NoLostEdit

-----------------------------------------------------------------------------
(* RenderIsCurrent *)

\* A build of the current revision is a film of the current text.
Film ==
  /\ version.built <= version.revision
  /\ version.built = version.revision => version.film = version.text

\* Every step keeps the relation of the film and the text it was built from.
LEMMA FilmStep == HistInv /\ Film /\ [Next]_vars => Film'
<1> SUFFICES ASSUME HistInv, Film, [Next]_vars PROVE Film'
  OBVIOUS
<1>0. TypeInv /\ Snapshot /\ version.revision \in Nat /\ version.built \in Nat
  BY DEF HistInv, TypeInv, TypeOK
<1>1. CASE Load
  BY <1>0, <1>1, LoadEffect DEF Film
<1>2. CASE Begin
  BY <1>0, <1>2, BeginEffect DEF ContentKept, Film
<1>3. CASE ResumeBuild
  BY <1>0, <1>3, ResumeEffect DEF ContentKept, Film
<1>4. CASE Plan
  BY <1>0, <1>4, PlanEffect DEF Film
<1>5. CASE PauseForSource \/ PauseForPlan
  BY <1>0, <1>5, PauseEffect DEF ContentKept, Film
<1>6. CASE WriteScript
  BY <1>0, <1>6, WriteEffect DEF Film
<1>7. CASE FinishBuild
  BY <1>0, <1>7, FinishEffect DEF Film
<1>8. CASE Fail
  BY <1>0, <1>8, FailEffect DEF StatusSettles, Film
<1>9. CASE QueueShape
  BY <1>9 DEF QueueShape, Turns, StatusSettles, Film
<1>10. CASE RetryShape \/ StartShape \/ UNCHANGED vars
  BY <1>10 DEF RetryShape, StartShape, vars, Film
<1>11. CASE CommitShape
  <2>1. PICK q \in Requests : UNCHANGED version \/ MetaSave(q) \/ Approval(q) \/ Change(q)
    BY <1>11 DEF CommitShape
  <2>2. CASE UNCHANGED version \/ MetaSave(q) \/ Approval(q)
    BY <2>2 DEF MetaSave, MetaSaved, Approval, ContentKept, Film
  <2>3. CASE TextSaved(q)
    BY <1>0, <2>3 DEF TextSaved, Film
  <2> QED  BY <2>1, <2>2, <2>3 DEF Change
<1> QED  BY <1>0, <1>1, <1>2, <1>3, <1>4, <1>5, <1>6, <1>7, <1>8, <1>9, <1>10, <1>11, StepHasShape
         DEF Handler

\* A render is offered only of the screenplay as it is.
THEOREM RendersAreCurrent == Spec => []RenderIsCurrent
<1>1. Init => Film
  BY DEF Init, NewVersion, Film
<1>2. HistInv /\ Film => RenderIsCurrent
  <2> SUFFICES ASSUME HistInv, Film, NextStep = "render" PROVE version.film = version.text
    BY DEF RenderIsCurrent
  <2>1. version.built = version.revision
    BY DEF NextStep
  <2> QED  BY <2>1 DEF Film
<1> QED  BY <1>1, <1>2, HistInit, HistStep, FilmStep, PTL DEF Spec

-----------------------------------------------------------------------------
(* ScriptOnce *)

\* A handler before its write has written nothing yet; a job that wrote left
\* its base revision behind, or its signature while it is a translation.
ScriptInv ==
  /\ handler.at \in Unwritten => scripts[handler.job] = 0
  /\ \A j \in JobIds :
       /\ scripts[j] \in {0, 1}
       /\ scripts[j] = 1 =>
            /\ jobs[j].status # "absent"
            /\ jobs[j].kind # "translate" => version.revision > jobs[j].base
            /\ jobs[j].kind = "translate" /\ jobs[j].status \in Active =>
                 version.meta.writer = [job |-> j, revision |-> version.revision]

\* The jobs that are active were active or are new.
LEMMA ActiveStay ==
  ASSUME TypeInv, [Next]_vars
  PROVE  \A k \in JobIds : jobs'[k].status \in Active =>
           jobs[k].status \in Active \/ jobs[k].status = "absent"
<1>1. CASE UNCHANGED jobs
  BY <1>1
<1>2. ASSUME NEW j \in JobIds, Turns(j)
      PROVE  \A k \in JobIds : jobs'[k].status \in Active => jobs[k].status \in Active
  BY <1>2 DEF Turns, Moves, Closes, OthersKept
<1>3. ASSUME NEW n \in JobIds, NEW kind, NEW base, NEW resume, NEW old, Adds(n, kind, base, resume, old)
      PROVE  \A k \in JobIds : jobs'[k].status \in Active =>
               jobs[k].status \in Active \/ jobs[k].status = "absent"
  BY <1>3 DEF Adds, Active, Retryable
<1>4. CASE Handler \/ UNCHANGED vars \/ StartShape
  BY <1>1, <1>4, TypeHandler DEF HandlerStays, vars, StartShape
<1>5. CASE QueueShape
  BY <1>1, <1>2, <1>5 DEF QueueShape
<1>6. CASE RetryShape
  BY <1>3, <1>6 DEF RetryShape
<1>7. CASE CommitShape
  BY <1>1, <1>3, <1>7 DEF CommitShape, MetaSave, Approval, Change
<1> QED  BY <1>4, <1>5, <1>6, <1>7, StepHasShape

\* Every step keeps ScriptInv.
LEMMA ScriptStep == HistInv /\ ScriptInv /\ [Next]_vars => ScriptInv'
<1> SUFFICES ASSUME HistInv, ScriptInv, [Next]_vars PROVE ScriptInv'
  OBVIOUS
<1>0. /\ TypeInv /\ Snapshot /\ Place /\ version.revision \in Nat
      /\ scripts \in [JobIds -> Nat] /\ jobs \in [JobIds -> JobType]
      /\ \A j \in JobIds : jobs[j].base \in Nat
  <2>1. TypeInv /\ jobs \in [JobIds -> JobType]
    BY DEF HistInv, TypeInv, TypeOK
  <2> QED  BY <2>1 DEF HistInv, TypeInv, TypeOK, JobType
<1>1. \A j \in JobIds : jobs[j].status # "absent" => SameTask(j) /\ jobs'[j].status # "absent"
  BY <1>0, TasksKeptByStep
<1>2. CASE WriteScript
  <2> DEFINE i == handler.job
  <2>1. /\ i \in JobIds /\ handler.at = "script" /\ handler'.at = "build"
        /\ version'.revision = version.revision + 1
        /\ version'.meta.writer = [job |-> i, revision |-> version'.revision]
        /\ scripts' = [scripts EXCEPT ![i] = @ + 1]
    BY <1>0, <1>2, WriteEffect DEF GoesTo
  <2>2. jobs' = jobs /\ jobs[i].status = "running"
    BY <1>0, <1>2, <2>1, WriteTypes DEF TypeInv, HandlerRuns, HandlerStays
  <2>3. scripts[i] = 0 /\ scripts'[i] = 1
    BY <1>0, <2>1 DEF ScriptInv, Unwritten
  <2>4. jobs[i].kind # "translate" => version.revision = jobs[i].base
    BY <1>0, <2>1 DEF Place, Unwritten, Snapshot, Working, Translates, TheJob
  <2>5. \A j \in JobIds : j # i => scripts'[j] = scripts[j] /\ jobs[j].status \notin Active
    BY <1>0, <2>1, <2>2 DEF TypeInv, OneActive, Active
  <2>6. ASSUME NEW j \in JobIds, scripts'[j] = 1
        PROVE  /\ jobs[j].status # "absent"
               /\ jobs[j].kind # "translate" => version'.revision > jobs[j].base
               /\ jobs[j].kind = "translate" /\ jobs[j].status \in Active =>
                    version'.meta.writer = [job |-> j, revision |-> version'.revision]
    <3>1. CASE j = i
      <4>1. jobs[i].kind # "translate" => version'.revision > jobs[i].base
        BY <1>0, <2>1, <2>4
      <4> QED  BY <2>1, <2>2, <3>1, <4>1
    <3>2. CASE j # i
      <4>1. scripts[j] = 1 /\ jobs[j].status \notin Active
        BY <2>5, <2>6, <3>2
      <4>2. jobs[j].kind # "translate" => version.revision > jobs[j].base
        BY <4>1 DEF ScriptInv
      <4>3. jobs[j].kind # "translate" => version'.revision > jobs[j].base
        BY <1>0, <2>1, <4>2
      <4> QED  BY <4>1, <4>3 DEF ScriptInv
    <3> QED  BY <3>1, <3>2
  <2>7. \A j \in JobIds : scripts'[j] \in {0, 1}
    BY <2>3, <2>5 DEF ScriptInv
  <2> QED  BY <2>1, <2>2, <2>6, <2>7 DEF ScriptInv, Unwritten
<1>3. CASE ~WriteScript
  <2>1. /\ scripts' = scripts /\ version'.meta.writer = version.meta.writer
        /\ \/ version'.revision = version.revision
           \/ /\ version'.revision = version.revision + 1
              /\ \A k \in JobIds : jobs[k].status \notin Active
    BY <1>3, WhoWrites DEF TextSaved
  <2>2. ASSUME NEW j \in JobIds, scripts'[j] = 1
        PROVE  /\ jobs'[j].status # "absent"
               /\ jobs'[j].kind # "translate" => version'.revision > jobs'[j].base
               /\ jobs'[j].kind = "translate" /\ jobs'[j].status \in Active =>
                    version'.meta.writer = [job |-> j, revision |-> version'.revision]
    <3>1. jobs[j].status # "absent"
      BY <2>1, <2>2 DEF ScriptInv
    <3>2. /\ jobs'[j].kind = jobs[j].kind /\ jobs'[j].base = jobs[j].base
          /\ jobs'[j].status # "absent"
          /\ jobs'[j].status \in Active => jobs[j].status \in Active
      BY <1>0, <1>1, <3>1, ActiveStay DEF SameTask
    <3>3. jobs'[j].kind # "translate" => version'.revision > jobs'[j].base
      <4>1. jobs[j].kind # "translate" => version.revision > jobs[j].base
        BY <2>1, <2>2 DEF ScriptInv
      <4>2. version'.revision \in {version.revision, version.revision + 1} /\ jobs[j].base \in Nat
        BY <1>0, <2>1
      <4> QED  BY <1>0, <3>2, <4>1, <4>2
    <3>4. jobs'[j].kind = "translate" /\ jobs'[j].status \in Active =>
            version'.meta.writer = [job |-> j, revision |-> version'.revision]
      BY <2>1, <2>2, <3>2 DEF ScriptInv
    <3> QED  BY <3>2, <3>3, <3>4
  <2>3. handler'.at \in Unwritten => scripts[handler'.job] = 0
    <3>1. CASE Handler
      <4>1. /\ handler'.job = handler.job /\ handler.job \in JobIds /\ jobs[handler.job].status = "running"
        BY <1>0, <3>1, TypeHandler DEF HandlerStays, TypeInv, HandlerRuns
      <4>2. CASE Load
        <5>1. scripts[handler.job] = 1 /\ Translates => WrittenByThisJob
          BY <4>1 DEF ScriptInv, WrittenByThisJob, Translates, TheJob, Active
        <5>2. scripts[handler.job] = 1 /\ ~Translates => version.revision # TheJob.base
          <6>1. jobs[handler.job].base \in Nat
            BY <1>0, <4>1
          <6>2. scripts[handler.job] = 1 /\ ~Translates => version.revision > jobs[handler.job].base
            BY <4>1 DEF ScriptInv, Translates, TheJob
          <6> QED  BY <1>0, <6>1, <6>2 DEF TheJob
        <5>3. scripts[handler.job] \in {0, 1}
          BY <4>1 DEF ScriptInv
        <5> QED  BY <1>0, <4>1, <4>2, <5>1, <5>2, <5>3, LoadEffect DEF GoesTo, IsOver, Unwritten
      <4>3. CASE Begin
        BY <1>0, <4>1, <4>3, BeginEffect DEF ScriptInv, Unwritten
      <4>4. CASE Plan
        BY <1>0, <4>1, <4>4, PlanEffect DEF ScriptInv, Unwritten
      <4>5. CASE ResumeBuild
        BY <1>0, <4>5, ResumeEffect DEF GoesTo, Unwritten
      <4>6. CASE PauseForSource \/ PauseForPlan
        BY <1>0, <4>6, PauseEffect DEF IsOver, Unwritten
      <4>7. CASE FinishBuild
        BY <1>0, <4>7, FinishEffect DEF IsOver, Unwritten
      <4>8. CASE Fail
        BY <1>0, <4>8, FailEffect DEF IsOver, Unwritten
      <4> QED  BY <1>3, <3>1, <4>2, <4>3, <4>4, <4>5, <4>6, <4>7, <4>8 DEF Handler
    <3>2. CASE handler' = handler
      BY <3>2 DEF ScriptInv
    <3>3. CASE handler'.at \in {"idle", "load"}
      BY <3>3 DEF Unwritten
    <3> QED  BY <1>0, <3>1, <3>2, <3>3, StepHasShape
             DEF QueueShape, Rests, RetryShape, StartShape, CommitShape, vars
  <2> QED  BY <2>1, <2>2, <2>3 DEF ScriptInv
<1> QED  BY <1>2, <1>3

\* A job writes the screenplay at most once, however often it is tried.
THEOREM ScriptsOnce == Spec => []ScriptOnce
<1>1. Init => ScriptInv
  BY DEF Init, NoHandler, ScriptInv, Unwritten
<1>2. ScriptInv => ScriptOnce
  <2>1. ScriptInv => \A j \in JobIds : scripts[j] = 0 \/ scripts[j] = 1
    BY DEF ScriptInv
  <2> QED  BY <2>1 DEF ScriptOnce
<1> QED  BY <1>1, <1>2, HistInit, HistStep, ScriptStep, PTL DEF Spec

-----------------------------------------------------------------------------
(* OwnWriteResumes *)

\* A skipped job is over, and one about to be was not the last writer.
SkipInv ==
  /\ OwnWriteResumes
  /\ \A j \in JobIds : jobs[j].skipped => jobs[j].status = "succeeded"
  /\ handler.outcome = "skipped" =>
       version.meta.writer # [job |-> handler.job, revision |-> version.revision]

\* A job is skipped because it was or because its handler says so.
LEMMA WhoSkips ==
  ASSUME HistInv, SkipInv, [Next]_vars, NEW j \in JobIds, jobs'[j].skipped
  PROVE  /\ jobs'[j].status = "succeeded"
         /\ \/ jobs[j].skipped
            \/ /\ handler.at = "ended" /\ handler.outcome = "skipped" /\ handler.job = j
               /\ \E i \in JobIds : Turns(i)
<1>0. TypeInv /\ (jobs[j].skipped => jobs[j].status = "succeeded")
  BY DEF HistInv, SkipInv
<1>1. CASE UNCHANGED jobs
  BY <1>0, <1>1
<1>2. CASE \E i \in JobIds : Turns(i)
  BY <1>0, <1>2 DEF Turns, Moves, Closes, OthersKept, Active
<1>3. ASSUME NEW n \in JobIds, NEW kind, NEW base, NEW resume, NEW old, Adds(n, kind, base, resume, old)
      PROVE  jobs[j].skipped /\ jobs'[j].status = "succeeded"
  BY <1>0, <1>3 DEF Adds, NewRow, Retryable
<1>4. CASE Handler \/ UNCHANGED vars \/ StartShape
  BY <1>0, <1>1, <1>4, TypeHandler DEF HandlerStays, vars, StartShape
<1>5. CASE QueueShape
  BY <1>1, <1>2, <1>5 DEF QueueShape
<1>6. CASE RetryShape
  BY <1>3, <1>6 DEF RetryShape
<1>7. CASE CommitShape
  BY <1>1, <1>3, <1>7 DEF CommitShape, MetaSave, Approval, Change
<1> QED  BY <1>0, <1>4, <1>5, <1>6, <1>7, StepHasShape

\* Every step keeps SkipInv: Load skips only where the last write is not its own.
LEMMA SkipStep == HistInv /\ SkipInv /\ [Next]_vars => SkipInv'
<1> SUFFICES ASSUME HistInv, SkipInv, [Next]_vars PROVE SkipInv'
  OBVIOUS
<1>0. /\ TypeInv /\ Snapshot /\ Place /\ Writer
      /\ version.revision \in Nat \ {0} /\ version.meta.writer.revision \in Nat
  <2>1. TypeInv /\ version \in VersionType
    BY DEF HistInv, TypeInv, TypeOK, VersionType
  <2> QED  BY <2>1 DEF HistInv, VersionType, MetaType
<1>1. \A j \in JobIds : jobs'[j].skipped => jobs'[j].status = "succeeded"
  BY WhoSkips
<1>2. CASE WriteScript
  <2>1. /\ handler.job \in JobIds /\ jobs[handler.job].status = "running"
        /\ handler.at = "script" /\ GoesTo("build")
        /\ version'.meta.writer = [job |-> handler.job, revision |-> version'.revision]
    BY <1>0, <1>2, WriteEffect DEF TypeInv, HandlerRuns
  <2>2. jobs' = jobs
    BY <1>0, <1>2, WriteTypes DEF HandlerStays
  <2>3. handler'.outcome # "skipped"
    BY <1>0, <2>1 DEF GoesTo, Place
  <2>4. \A j \in JobIds : jobs'[j].skipped => j # handler.job
    BY <2>1, <2>2 DEF SkipInv
  <2> QED  BY <1>1, <2>1, <2>3, <2>4 DEF SkipInv, OwnWriteResumes
<1>3. CASE /\ ~WriteScript /\ version'.revision = version.revision
           /\ version'.meta.writer = version.meta.writer
  <2>1. OwnWriteResumes'
    BY <1>3, WhoSkips DEF OwnWriteResumes, SkipInv
  <2>2. handler'.outcome = "skipped" =>
          version'.meta.writer # [job |-> handler'.job, revision |-> version'.revision]
    <3>1. CASE Handler
      <4>1. handler'.job = handler.job /\ handler.job \in JobIds
        BY <1>0, <3>1, TypeHandler DEF HandlerStays, TypeInv, HandlerRuns
      <4>2. CASE handler'.outcome = handler.outcome
        BY <1>3, <4>1, <4>2 DEF SkipInv
      <4>3. CASE IsOver("skipped") /\ Load /\ ~Translates /\ ~WrittenByThisJob
        <5>1. ASSUME version.meta.writer = [job |-> handler.job, revision |-> version.revision]
              PROVE  FALSE
          <6>1. version.meta.writer # NoWriter
            BY <4>1, <5>1 DEF NoWriter, JobIds
          <6>2. version.revision = TheJob.base + 1
            BY <1>0, <4>3, <5>1, <6>1 DEF Writer, Translates, TheJob
          <6> QED  BY <4>3, <5>1, <6>2 DEF WrittenByThisJob
        <5> QED  BY <1>3, <4>1, <5>1
      <4>4. CASE handler'.outcome # "skipped"
        BY <4>4
      <4>5. CASE Load
        BY <1>0, <4>2, <4>3, <4>5, LoadEffect DEF GoesTo
      <4>6. CASE Begin
        BY <1>0, <4>2, <4>6, BeginEffect DEF GoesTo
      <4>7. CASE ResumeBuild
        BY <1>0, <4>2, <4>7, ResumeEffect DEF GoesTo
      <4>8. CASE Plan
        BY <1>0, <4>2, <4>8, PlanEffect DEF GoesTo
      <4>9. CASE PauseForSource \/ PauseForPlan
        BY <1>0, <4>4, <4>9, PauseEffect DEF IsOver
      <4>10. CASE FinishBuild
        BY <1>0, <4>4, <4>10, FinishEffect DEF IsOver
      <4>11. CASE Fail
        BY <1>0, <4>4, <4>11, FailEffect DEF IsOver
      <4> QED  BY <1>3, <3>1, <4>5, <4>6, <4>7, <4>8, <4>9, <4>10, <4>11 DEF Handler
    <3>2. CASE handler' = handler
      BY <1>3, <3>2 DEF SkipInv
    <3>3. CASE handler'.outcome = "none"
      BY <3>3
    <3> QED  BY <1>0, <3>1, <3>2, <3>3, StepHasShape
             DEF QueueShape, Rests, RetryShape, StartShape, CommitShape, vars
  <2> QED  BY <1>1, <2>1, <2>2 DEF SkipInv
<1>4. CASE \E q \in Requests : TextSaved(q) /\ handler' = handler /\ version'.meta.writer = version.meta.writer
  <2>1. /\ version'.revision = version.revision + 1 /\ version'.meta.writer = version.meta.writer
        /\ handler' = handler
        /\ \A k \in JobIds : jobs[k].status \notin Active
    BY <1>4 DEF TextSaved
  <2>2. \A j \in JobIds : version.meta.writer # [job |-> j, revision |-> version.revision + 1]
    <3>1. CASE version.meta.writer = NoWriter
      BY <3>1 DEF NoWriter, JobIds
    <3>2. CASE version.meta.writer # NoWriter
      BY <1>0, <3>2 DEF Writer
    <3> QED  BY <3>1, <3>2
  <2>3. handler.outcome # "skipped"
    <3>1. handler.at = "idle"
      BY <1>0, <2>1 DEF TypeInv, HandlerRuns, Active
    <3> QED  BY <1>0, <3>1 DEF Place
  <2> QED  BY <1>1, <2>1, <2>2, <2>3 DEF SkipInv, OwnWriteResumes
<1> QED  BY <1>2, <1>3, <1>4, WhoWrites

\* A job never stops because of its own earlier write.
THEOREM OwnWritesResume == Spec => []OwnWriteResumes
<1>1. Init => SkipInv
  <2> SUFFICES ASSUME Init PROVE SkipInv
    OBVIOUS
  <2>1. handler.outcome = "none"
    BY DEF Init, NoHandler
  <2>2. \A j \in JobIds : ~jobs[j].skipped
    BY InitJobs DEF NewRow
  <2> QED  BY <2>1, <2>2 DEF SkipInv, OwnWriteResumes
<1>2. SkipInv => OwnWriteResumes
  BY DEF SkipInv
<1> QED  BY <1>1, <1>2, HistInit, HistStep, SkipStep, PTL DEF Spec

-----------------------------------------------------------------------------
(* ApprovedPlanIsWritten *)

\* A generation that runs, waits or may still be retried.
Live(j) ==
  /\ jobs[j].kind = "generate_lecture"
  /\ jobs[j].status \in Active \/ (jobs[j].status \in Retryable /\ ~jobs[j].retried)

\* Job j continues after a plan was approved.
Follows(j) == jobs[j].resume = "plan_review" /\ approved # NoPlan

\* There is one line of generations: each continues or retries the last.
OneLive == \A j, k \in JobIds : Live(j) /\ Live(k) => j = k

\* Until a text is written the version keeps the plan that was approved.
PlanKept == \A j \in JobIds :
  Live(j) /\ Follows(j) /\ version.revision = 1 =>
    version.meta.plan = approved /\ version.status # "awaiting_review"

\* The handler that follows an approval neither plans nor pauses again.
PlanTaken ==
  handler.at \in Unwritten /\ Generates /\ Follows(handler.job) =>
    handler.at \in {"begin", "script"} /\ handler.meta.plan = approved

PlanInv == OneLive /\ PlanKept /\ PlanTaken

\* A live generation was live before, or it continues or retries the one that
\* was.
LEMMA LiveStep ==
  ASSUME HistInv, OneLive, [Next]_vars
  PROVE  /\ OneLive'
         /\ \A j \in JobIds : Live(j)' =>
              \/ Live(j) /\ SameTask(j)
              \/ /\ RetryShape
                 /\ \E old \in JobIds : Live(old) /\ jobs'[j].resume = jobs[old].resume
              \/ \E q \in Requests : Approval(q)
<1>0. TypeInv /\ AwaitGen
  BY DEF HistInv
<1>1. CASE UNCHANGED jobs
  BY <1>1 DEF OneLive, Live, SameTask
<1>2. CASE \E i \in JobIds : Turns(i)
  <2>1. \A j \in JobIds : Live(j)' => Live(j) /\ SameTask(j)
    <3>1. PICK i \in JobIds : Turns(i)
      BY <1>2
    <3>2. /\ \A k \in JobIds : k # i => jobs'[k] = jobs[k]
          /\ SameTask(i) /\ jobs[i].status \in Active
      BY <3>1 DEF Turns, Moves, Closes, OthersKept
    <3> QED  BY <3>2 DEF Live, SameTask
  <2> QED  BY <2>1 DEF OneLive
<1>3. CASE Handler \/ UNCHANGED vars \/ StartShape
  BY <1>0, <1>1, <1>3, TypeHandler DEF HandlerStays, vars, StartShape
<1>4. CASE QueueShape
  BY <1>1, <1>2, <1>4 DEF QueueShape
<1>5. ASSUME NEW n \in JobIds, NEW kind, NEW base, NEW resume, NEW old,
             Adds(n, kind, base, resume, old)
      PROVE  /\ ~Live(n)
             /\ \A j \in JobIds : j # n /\ Live(j)' => Live(j) /\ SameTask(j) /\ j # old
             /\ old \in JobIds /\ jobs[old].status \in Retryable /\ kind = "generate_lecture" =>
                  Live(old) /\ kind = jobs[old].kind /\ resume = jobs[old].resume
             /\ jobs'[n].resume = resume /\ jobs'[n].kind = kind
  <2>1. /\ jobs[n].status = "absent" /\ jobs'[n].resume = resume /\ jobs'[n].kind = kind
        /\ \A k \in JobIds : k # n /\ k # old => jobs'[k] = jobs[k]
    BY <1>5 DEF Adds, NewRow
  <2>2. old \in JobIds => ~Live(old)'
    BY <1>5 DEF Adds, Live, Active, Retryable
  <2>3. old \in JobIds /\ jobs[old].status \in Retryable /\ kind = "generate_lecture" =>
          Live(old) /\ kind = jobs[old].kind /\ resume = jobs[old].resume
    BY <1>5 DEF Adds, Live, Retryable
  <2> QED  BY <2>1, <2>2, <2>3 DEF Live, SameTask, Active, Retryable
<1>6. CASE RetryShape
  <2>1. PICK i \in JobIds, n \in JobIds :
          jobs[i].status \in Retryable /\ Adds(n, jobs[i].kind, jobs[i].base, jobs[i].resume, i)
    BY <1>6 DEF RetryShape
  <2>2. /\ \A j \in JobIds : j # n /\ Live(j)' => Live(j) /\ SameTask(j) /\ j # i
        /\ jobs'[n].kind = "generate_lecture" => Live(i)
        /\ jobs'[n].resume = jobs[i].resume
    BY <1>5, <2>1
  <2>3. Live(n)' => Live(i)
    BY <2>2 DEF Live
  <2>4. OneLive'
    BY <2>2, <2>3 DEF OneLive
  <2> QED  BY <1>6, <2>2, <2>3, <2>4
<1>7. ASSUME NEW q \in Requests, Approval(q) PROVE OneLive'
  <2> DEFINE old == requests[q].job
  <2>1. old \in JobIds /\ jobs[old].status = "awaiting_review"
    BY <1>7 DEF Approval
  <2>2. Live(old)
    BY <1>0, <2>1 DEF AwaitGen, Live, Active
  <2>3. PICK n \in JobIds :
          Adds(n, "generate_lecture", requests[q].revision, jobs[old].result, old)
    BY <1>7 DEF Approval
  <2>4. \A j \in JobIds : j # n /\ Live(j)' => Live(j) /\ j # old
    BY <1>5, <2>3
  <2> QED  BY <2>1, <2>2, <2>4 DEF OneLive
<1>8. ASSUME NEW q \in Requests, Change(q)
      PROVE  OneLive' /\ \A j \in JobIds : Live(j)' => Live(j) /\ SameTask(j)
  <2>1. CASE UNCHANGED jobs
    BY <1>1, <2>1 DEF Live, SameTask
  <2>2. CASE \E n \in JobIds, kind \in {"build_assets", "regenerate_scene"}, base \in Nat :
               Adds(n, kind, base, "none", 0)
    <3>1. PICK n \in JobIds, kind \in {"build_assets", "regenerate_scene"}, base \in Nat :
            Adds(n, kind, base, "none", 0)
      BY <2>2
    <3>2. \A j \in JobIds : j # n /\ Live(j)' => Live(j) /\ SameTask(j)
      BY <1>5, <3>1
    <3>3. jobs'[n].kind = kind
      BY <1>5, <3>1
    <3>4. ~Live(n)'
      BY <3>3 DEF Live
    <3> QED  BY <3>2, <3>4 DEF OneLive
  <2>3. version.revision + 1 \in Nat /\ requests[q].revision \in Nat
    <3>1. version \in VersionType /\ requests[q] \in RequestType
      BY <1>0 DEF TypeInv, TypeOK, VersionType, RequestType
    <3> QED  BY <3>1 DEF VersionType, RequestType
  <2> QED  BY <1>8, <2>1, <2>2, <2>3 DEF Change
<1>9. CASE CommitShape
  BY <1>1, <1>7, <1>8, <1>9 DEF CommitShape, MetaSave
<1> QED  BY <1>0, <1>3, <1>4, <1>6, <1>9, StepHasShape

\* The job of a handler that generates is the live one.
LEMMA HandlerLive ==
  ASSUME HistInv, PlanInv, handler.at # "idle", Generates
  PROVE  handler.job \in JobIds /\ Live(handler.job) /\ \A j \in JobIds : Live(j) => j = handler.job
<1>1. handler.job \in JobIds /\ jobs[handler.job].status = "running"
  BY DEF HistInv, TypeInv, HandlerRuns
<1>2. Live(handler.job)
  BY <1>1 DEF Live, Active, Generates, TheJob
<1> QED  BY <1>1, <1>2 DEF PlanInv, OneLive

\* No step but an approval touches the plan of a live generation that follows
\* one.
LEMMA PlanStays ==
  ASSUME HistInv, PlanInv, [Next]_vars, NEW j \in JobIds, Live(j), Follows(j),
         version'.revision = 1
  PROVE  \/ \E q \in Requests : Approval(q)
         \/ /\ version.revision = 1 /\ approved' = approved
            /\ version'.meta.plan = version.meta.plan /\ version'.status # "awaiting_review"
<1>0. /\ TypeInv /\ Snapshot /\ Place /\ version.revision \in Nat \ {0}
      /\ version.revision = 1 => version.meta.plan = approved /\ version.status # "awaiting_review"
  <2>1. TypeInv /\ PlanKept
    BY DEF HistInv, PlanInv
  <2> QED  BY <2>1 DEF HistInv, TypeInv, TypeOK, PlanKept
<1>1. CASE Handler
  <2>1. UNCHANGED approved /\ handler.at # "idle"
    BY <1>0, <1>1, TypeHandler DEF HandlerStays
  <2>2. CASE Load
    BY <1>0, <2>1, <2>2, LoadEffect
  <2>3. CASE Begin
    <3>1. ~ChecksSource
      BY <2>1, HandlerLive DEF ChecksSource, Follows, TheJob
    <3> QED  BY <1>0, <2>1, <2>3, <3>1, BeginEffect DEF ContentKept
  <2>4. CASE ResumeBuild
    BY <1>0, <2>1, <2>4, ResumeEffect DEF ContentKept
  <2>5. CASE Plan
    BY <1>0, <2>1, <2>5, PlanEffect
  <2>6. CASE PauseForSource \/ PauseForPlan
    <3>1. handler.at \in {"pause_source", "pause_plan"} /\ Generates
      BY <1>0, <2>6, PauseEffect DEF Place
    <3>2. j = handler.job
      BY <2>1, <3>1, HandlerLive
    <3> QED  BY <3>1, <3>2 DEF PlanInv, PlanTaken, Unwritten
  <2>7. CASE WriteScript
    BY <1>0, <2>7, WriteEffect
  <2>8. CASE FinishBuild
    BY <1>0, <2>8, FinishEffect DEF Place, Snapshot, Working
  <2>9. CASE Fail
    BY <1>0, <2>1, <2>9, FailEffect DEF StatusSettles
  <2> QED  BY <1>1, <2>2, <2>3, <2>4, <2>5, <2>6, <2>7, <2>8, <2>9 DEF Handler
<1>2. CASE QueueShape
  BY <1>0, <1>2 DEF QueueShape, Turns, StatusSettles
<1>3. CASE RetryShape \/ StartShape \/ UNCHANGED vars
  BY <1>0, <1>3 DEF RetryShape, StartShape, vars
<1>4. CASE CommitShape
  <2>1. PICK q \in Requests :
          UNCHANGED <<version, jobs, approved>> \/ MetaSave(q) \/ Approval(q) \/ Change(q)
    BY <1>4 DEF CommitShape
  <2>2. CASE UNCHANGED <<version, jobs, approved>>
    BY <1>0, <2>2
  <2>3. CASE MetaSave(q)
    BY <1>0, <2>3 DEF MetaSave, MetaSaved
  <2>4. CASE TextSaved(q)
    BY <1>0, <2>4 DEF TextSaved
  <2>5. CASE UNCHANGED <<version, approved>>
    BY <1>0, <2>5
  <2> QED  BY <2>1, <2>2, <2>3, <2>4, <2>5 DEF Change
<1> QED  BY <1>0, <1>1, <1>2, <1>3, <1>4, StepHasShape

\* While a continuation waits for its worker, the plan it was approved with stays.
LEMMA PlanKeptStep == HistInv /\ PlanInv /\ [Next]_vars => PlanKept'
<1> SUFFICES ASSUME HistInv, PlanInv, [Next]_vars, NEW j \in JobIds,
                    Live(j)', Follows(j)', version'.revision = 1
             PROVE  version'.meta.plan = approved' /\ version'.status # "awaiting_review"
  BY DEF PlanKept
<1>1. CASE \E q \in Requests : Approval(q)
  BY <1>1 DEF Approval
<1>2. CASE ~\E q \in Requests : Approval(q)
  <2>1. PICK i \in JobIds : Live(i) /\ jobs'[j].resume = jobs[i].resume
    BY <1>2, LiveStep DEF PlanInv, SameTask
  <2>2. approved' = approved
    <3>1. UNCHANGED approved \/ CommitShape
      BY StepHasShape, TypeHandler
         DEF HistInv, HandlerStays, vars, QueueShape, RetryShape, StartShape
    <3> QED  BY <1>2, <3>1 DEF CommitShape, MetaSave, Change
  <2>3. Follows(i)
    BY <2>1, <2>2 DEF Follows
  <2>4. /\ version.revision = 1
        /\ version'.meta.plan = version.meta.plan /\ version'.status # "awaiting_review"
    BY <1>2, <2>1, <2>3, PlanStays
  <2> QED  BY <2>1, <2>2, <2>3, <2>4 DEF PlanInv, PlanKept
<1> QED  BY <1>1, <1>2

\* The handler of a continuation takes the approved plan with its snapshot.
LEMMA PlanTakenStep == HistInv /\ PlanInv /\ [Next]_vars => PlanTaken'
<1> SUFFICES ASSUME HistInv, PlanInv, [Next]_vars PROVE PlanTaken'
  OBVIOUS
<1>0. TypeInv /\ Snapshot /\ Place
  BY DEF HistInv
<1>1. CASE Handler
  <2>1. /\ UNCHANGED <<jobs, approved>> /\ handler'.job = handler.job
        /\ handler.at # "idle" /\ handler.job \in JobIds /\ jobs[handler.job].status # "absent"
    BY <1>0, <1>1, TypeHandler DEF HandlerStays, TypeInv, HandlerRuns
  <2>2. Generates' = Generates /\ Follows(handler.job)' = Follows(handler.job)
    BY <2>1 DEF Generates, TheJob, Follows
  <2>3. CASE Load
    <3>1. Generates => TheJob.base = 1 /\ ~Translates
      BY <2>1 DEF HistInv, Bases, Generates, Translates, TheJob
    <3>2. Generates => Live(handler.job)
      BY <2>1, HandlerLive
    <3>3. Generates /\ Follows(handler.job) /\ version.revision = 1 => version.meta.plan = approved
      BY <2>1, <3>2 DEF PlanInv, PlanKept
    <3> QED  BY <1>0, <2>1, <2>2, <2>3, <3>1, <3>3, LoadEffect DEF PlanTaken, GoesTo, IsOver, Unwritten
  <2>4. CASE Begin
    <3>1. handler.at = "begin"
      BY <1>0, <2>4, BeginEffect
    <3>2. Generates /\ Follows(handler.job) =>
            handler.meta.plan # NoPlan /\ TheJob.resume = "plan_review" /\ handler.meta.plan = approved
      BY <3>1 DEF PlanInv, PlanTaken, Unwritten, Follows, TheJob
    <3> QED  BY <1>0, <2>1, <2>2, <2>4, <3>2, BeginEffect DEF PlanTaken, GoesTo, Unwritten
  <2>5. CASE Plan
    <3>1. ~(Generates /\ Follows(handler.job))
      BY <1>0, <2>5, PlanEffect DEF PlanInv, PlanTaken, Unwritten
    <3> QED  BY <2>1, <2>2, <3>1 DEF PlanTaken
  <2>6. CASE ResumeBuild
    BY <1>0, <2>6, ResumeEffect DEF PlanTaken, GoesTo, Unwritten
  <2>7. CASE PauseForSource \/ PauseForPlan
    BY <1>0, <2>7, PauseEffect DEF PlanTaken, IsOver, Unwritten
  <2>8. CASE WriteScript
    BY <1>0, <2>8, WriteEffect DEF PlanTaken, GoesTo, Unwritten
  <2>9. CASE FinishBuild
    BY <1>0, <2>9, FinishEffect DEF PlanTaken, IsOver, Unwritten
  <2>10. CASE Fail
    BY <1>0, <2>10, FailEffect DEF PlanTaken, IsOver, Unwritten
  <2> QED  BY <1>1, <2>3, <2>4, <2>5, <2>6, <2>7, <2>8, <2>9, <2>10 DEF Handler
<1>2. CASE handler' = handler /\ handler.at = "idle"
  BY <1>2 DEF PlanTaken, Unwritten
<1>3. CASE handler' = handler /\ handler.at # "idle" /\ approved' = approved
  <2>1. handler.job \in JobIds /\ jobs[handler.job].status # "absent"
    BY <1>0, <1>3 DEF TypeInv, HandlerRuns
  <2>2. SameTask(handler.job)
    BY <1>0, <2>1, TasksKeptByStep
  <2>3. Generates' = Generates /\ Follows(handler.job)' = Follows(handler.job)
    BY <1>3, <2>2 DEF Generates, TheJob, Follows, SameTask
  <2> QED  BY <1>3, <2>3 DEF PlanInv, PlanTaken
<1>4. CASE handler'.at \in {"idle", "load"}
  BY <1>4 DEF PlanTaken, Unwritten
<1>5. CASE CommitShape
  BY <1>2, <1>3, <1>5 DEF CommitShape, MetaSave, Approval, Change
<1> QED  BY <1>0, <1>1, <1>2, <1>3, <1>4, <1>5, StepHasShape
         DEF QueueShape, Rests, RetryShape, StartShape, vars

\* Every step keeps PlanInv.
LEMMA PlanStep == HistInv /\ PlanInv /\ [Next]_vars => PlanInv'
BY LiveStep, PlanKeptStep, PlanTakenStep DEF PlanInv

\* The lecture is written from the plan that was approved, whatever was
\* saved, cancelled or retried around it.
THEOREM ApprovedPlansAreWritten == Spec => []ApprovedPlanIsWritten
<1>1. Init => PlanInv
  <2> SUFFICES ASSUME Init PROVE PlanInv
    OBVIOUS
  <2>1. approved = NoPlan /\ handler.at = "idle"
    BY DEF Init, NoHandler
  <2>2. \A j \in JobIds : j # 1 => ~Live(j)
    BY InitJobs DEF Live, Active, Retryable
  <2> QED  BY <2>1, <2>2 DEF PlanInv, OneLive, PlanKept, PlanTaken, Follows, Unwritten
<1>2. HistInv /\ PlanInv => ApprovedPlanIsWritten
  <2> SUFFICES ASSUME HistInv, PlanInv, handler.at = "script", TheJob.resume = "plan_review",
                      approved # NoPlan
               PROVE  handler.meta.plan = approved
    BY DEF ApprovedPlanIsWritten
  <2>1. handler.job \in JobIds /\ jobs[handler.job].status # "absent"
    BY DEF HistInv, TypeInv, HandlerRuns
  <2>2. Generates
    BY <2>1 DEF HistInv, Bases, Generates, TheJob
  <2> QED  BY <2>2 DEF PlanInv, PlanTaken, Unwritten, Follows, TheJob
<1> QED  BY <1>1, <1>2, HistInit, HistStep, PlanStep, PTL DEF Spec
=============================================================================
