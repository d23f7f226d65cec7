------------------------------ MODULE AssetClaims ------------------------------
(* One AI video clip, wanted by several jobs in several worker processes: the *)
(* asset row (aadhi/storage/assets.py; its blobs and other assets are in      *)
(* AssetCleanup), the charge reported for the clip, and the generation claim  *)
(* that lets one process pay for it, and the operation record that lets a     *)
(* later attempt, or the next job, poll the provider's operation instead of   *)
(* paying again (aadhi/providers/operations.py, aadhi/pipeline/assets.py,     *)
(* aadhi/providers/video/veo.py).                                             *)
(*                                                                            *)
(* A process <<j, a>> is attempt a of job j at this clip; it is also the name *)
(* of the provider operation it starts (a process has at most one).  A        *)
(* process whose lease is gone may still run.                                 *)
EXTENDS Naturals, FiniteSets

CONSTANTS Jobs,
          Attempts,     \* Attempts[j]: how often job j may be started
          Confirmed,    \* jobs whose teacher accepted a possible second charge
          None,
          MaxTrouble    \* bound: stops, crashes, lost leases, database errors, claims
                        \* that expire under a running holder and requests sent
                        \* again, together

ConstantsAssumption == /\ Attempts \in [Jobs -> Nat \ {0}]
                       /\ Confirmed \subseteq Jobs
                       /\ MaxTrouble \in Nat
ASSUME ConstantsAssumption

VARIABLES asset,     \* whether the clip has its asset row
          claim,     \* the asset_claims row of the clip, or None
          attempt,   \* Job.attempts
          running,   \* whether the job row is running under its last attempt
          saved,     \* the operation record in the job's payload row
          task,      \* the processes
          ops,       \* operations the provider accepted (and bills)
          charged,   \* <<operation, job>>: its charge was reported in the job (record_usage)
          trouble,   \* how much of MaxTrouble happened
          clean,     \* no database error, and no claim expired under its holder
          unsaved,   \* whether a checkpoint was kept in memory only
          unnoted    \* whether somebody was disturbed between reporting a charge
                     \* and noting it in the job's payload
vars == <<asset, claim, attempt, running, saved, task, ops, charged, trouble,
          clean, unsaved, unnoted>>
--------------------------------------------------------------------------------
Procs == UNION {{j} \X (1..Attempts[j]) : j \in Jobs}
Statuses == {"pending", "submitting", "submitted", "completed", "failed",
             "abandoned", "lost", "ambiguous"}
Finished == {"pending", "completed", "failed", "abandoned"}
Outstanding == {"submitting", "submitted"}
Records == [st : Statuses, op : Procs \cup {None}, job : Jobs, noted : BOOLEAN]
Claims == [holder : Procs, op : Records \cup {None}, expired : BOOLEAN]
ASSUME NoneAssumption == None \notin Procs /\ None \notin Records /\ None \notin Claims

Outcomes == {"ok", "failed", "stopped", "dead"}
Saving == {"saveClaim", "saveJob"}
Acquiring == {"begin", "look", "claim", "take", "wait"}
\* Where the producer runs, and the claim is renewed.
Producing == {"produce", "sending", "send", "await", "refused", "poll",
              "giveUp", "put", "storing"} \cup Saving
Places == {"new", "recheck", "stored", "fail", "stop", "drop", "collect"}
          \cup Acquiring \cup Producing \cup {"ended"}

At(p, place) == task[p].pc = place
LeaseHeld(p) == running[p[1]] /\ attempt[p[1]] = p[2]
Holds(p) == claim # None /\ claim.holder = p
Produces(p) == task[p].pc \in Producing /\ task[p].nxt # "ok"
Renews(p) == task[p].claimed /\ Produces(p)
\* Whether a saved record is the last thing a finished caller does.
AfterCall(p) == task[p].nxt = "ok"

\* The record says that its operation was given up, with a known outcome.
GaveUp(record) == /\ record # None
                  /\ record.op # None
                  /\ record.st \in {"abandoned", "failed"}

\* A process goes on at place.  How one ended does not matter any more, but for
\* an operation it gave up and, unless it died, a thread it left behind.
Idle(record) == [pc |-> "new", nxt |-> "new", rec |-> None, mem |-> record,
                 claimed |-> FALSE, inherited |-> None, seen |-> None,
                 quit |-> FALSE, thread |-> "idle"]
Placed(t, place) ==
    IF place \in Outcomes
    THEN [Idle(None) EXCEPT !.pc = "ended",
                            !.rec = IF GaveUp(t.rec) THEN t.rec ELSE None,
                            !.thread = IF place = "dead" THEN "idle" ELSE t.thread]
    ELSE [t EXCEPT !.pc = place]
Go(p, place) == task' = [task EXCEPT ![p] = Placed(task[p], place)]
Disturbed == trouble < MaxTrouble /\ trouble' = trouble + 1
Fault == Disturbed /\ clean' = FALSE
NoFault == UNCHANGED <<trouble, clean>>
Lease == <<attempt, running>>
Charges == <<charged, unnoted>>
Bounds == <<trouble, clean, unsaved, Charges>>

\* Faulty variant: the job's own record always comes first.
OwnRecordFor(p) == IF task[p].mem # None \/ ~task[p].claimed THEN task[p].mem
                   ELSE task[p].inherited

\* OperationStore.get: the job's own record unless it is finished and the
\* claim taken over carries another operation to resume; else the inherited one.
RecordFor(p) ==
    LET own == task[p].mem
        inherited == IF task[p].claimed THEN task[p].inherited ELSE None
        resumable == inherited # None /\ inherited.st = "submitted" /\ inherited.op # None
    IN IF \/ own = None
          \/ own.st \in Finished /\ resumable /\ inherited.op # own.op
       THEN inherited ELSE own

\* OperationStore.save begins: the record is in the payload in memory, and goes
\* to the claim row and to the job row next, then the process goes on at then.
Saves(p, record, then) ==
    task' = [task EXCEPT ![p].rec = record, ![p].mem = record,
                         ![p].pc = IF task[p].claimed THEN "saveClaim" ELSE "saveJob",
                         ![p].nxt = then]
NewRecord(p, status) == [st |-> status, op |-> None, job |-> p[1], noted |-> FALSE]
Marked(p, status) == [task[p].rec EXCEPT !.st = status]

\* Faulty variant: the note of the charge is left out.
NotNoted(p) == task[p].rec
\* JobCheckpoint.usage_recorded
Noted(p) == [task[p].rec EXCEPT !.noted = TRUE]
\* The charge is reported, and what the record says of it is being saved.
Noting(p) == /\ task[p].pc \in Saving
             /\ task[p].nxt \in {"put", "giveUp", "stop"}
             /\ <<task[p].rec.op, p[1]>> \in charged
Charge(p) == /\ charged' = charged \cup {<<task[p].rec.op, p[1]>>}
             /\ unnoted' = (unnoted \/ ~LeaseHeld(p))
--------------------------------------------------------------------------------
Init == /\ asset = FALSE
        /\ claim = None
        /\ attempt = [j \in Jobs |-> 0]
        /\ running = [j \in Jobs |-> FALSE]
        /\ saved = [j \in Jobs |-> None]
        /\ task = [p \in Procs |-> Idle(None)]
        /\ ops = {}
        /\ charged = {}
        /\ trouble = 0
        /\ clean = TRUE
        /\ unsaved = FALSE
        /\ unnoted = FALSE

\* A worker takes the job, (again after a restart), with its stored payload.
StartAttempt(j) ==
    /\ ~running[j]
    /\ attempt[j] < Attempts[j]
    /\ attempt' = [attempt EXCEPT ![j] = attempt[j] + 1]
    /\ running' = [running EXCEPT ![j] = TRUE]
    /\ task' = [task EXCEPT ![<<j, attempt'[j]>>] =
                    [Idle(saved[j]) EXCEPT !.pc = "begin"]]
    /\ UNCHANGED <<asset, claim, saved, ops, Bounds>>

\* The job ends or is reaped; its process may not know.
LoseLease(j) ==
    /\ running[j]
    /\ \/ At(<<j, attempt[j]>>, "ended") /\ UNCHANGED trouble
       \/ ~At(<<j, attempt[j]>>, "ended") /\ Disturbed
    /\ running' = [running EXCEPT ![j] = FALSE]
    /\ unnoted' = (unnoted \/ Noting(<<j, attempt[j]>>))
    /\ UNCHANGED <<asset, claim, attempt, saved, task, ops, charged, clean, unsaved>>
--------------------------------------------------------------------------------
\* get_or_create, and the claim loop.
Begin(p) == /\ At(p, "begin")
            /\ Go(p, IF asset THEN "collect" ELSE "look")
            /\ UNCHANGED <<asset, claim, Lease, saved, ops, Bounds>>

Look(p) == /\ At(p, "look")
           /\ Go(p, IF asset THEN "collect" ELSE "claim")
           /\ UNCHANGED <<asset, claim, Lease, saved, ops, Bounds>>

\* Faulty variant: only the lease counts, the claim's expiry does not.
DeadByLease == ~LeaseHeld(claim.holder)
DeadClaim == claim.expired \/ ~LeaseHeld(claim.holder)

\* Cancelled callers leave the thread of their claim step behind.
AfterStep(p, place) == IF task[p].quit THEN "stopped" ELSE place

InsertClaim(p) ==
    /\ At(p, "claim")
    /\ claim = None
    /\ claim' = [holder |-> p, op |-> None, expired |-> FALSE]
    /\ task' = [task EXCEPT ![p] = Placed([task[p] EXCEPT !.claimed = TRUE],
                                           AfterStep(p, "recheck"))]
    /\ UNCHANGED <<asset, Lease, saved, ops, Bounds>>

ReadClaim(p) ==
    /\ At(p, "claim")
    /\ claim # None
    /\ IF DeadClaim THEN task' = [task EXCEPT ![p].seen = claim, ![p].pc = "take"]
                    ELSE Go(p, AfterStep(p, "wait"))
    /\ UNCHANGED <<asset, claim, Lease, saved, ops, Bounds>>

\* Faulty variant: the takeover matches the key only.
AnyRow(p) == claim # None
JudgedRow(p) == /\ Holds(task[p].seen.holder)
                /\ claim.expired = task[p].seen.expired

\* A dead claim with an operation is taken over in place, one without is removed.
TakeClaim(p) ==
    LET record == task[p].seen.op
        taken == record # None /\ JudgedRow(p)
    IN /\ At(p, "take")
       /\ claim' = IF ~JudgedRow(p) THEN claim
                   ELSE IF taken THEN [claim EXCEPT !.holder = p, !.expired = FALSE]
                   ELSE None
       /\ task' = [task EXCEPT ![p] =
                       Placed([task[p] EXCEPT !.claimed = taken, !.seen = None,
                                   !.inherited = IF taken THEN record ELSE None],
                              AfterStep(p, IF taken THEN "recheck" ELSE "look"))]
       /\ UNCHANGED <<asset, Lease, saved, ops, Bounds>>

\* A database error: the clip is generated without a claim.
ClaimsUnavailable(p) == /\ task[p].pc \in {"look", "claim", "take"}
                        /\ ~task[p].quit
                        /\ Fault
                        /\ Go(p, "produce")
                        /\ UNCHANGED <<asset, claim, Lease, saved, ops, unsaved, Charges>>

Wait(p) == /\ At(p, "wait")
           /\ Go(p, "look")
           /\ UNCHANGED <<asset, claim, Lease, saved, ops, Bounds>>

ClaimTimeout(p) == /\ At(p, "wait")
                   /\ Go(p, "failed")
                   /\ UNCHANGED <<asset, claim, Lease, saved, ops, Bounds>>

Recheck(p) == /\ At(p, "recheck")
              /\ Go(p, IF asset THEN "stored" ELSE "produce")
              /\ UNCHANGED <<asset, claim, Lease, saved, ops, Bounds>>
--------------------------------------------------------------------------------
\* The producer.  A clip an earlier attempt submitted is collected unguarded.
Resumable(record) == record # None /\ record.st = "submitted" /\ record.op # None

Refuse(p) == /\ At(p, "produce")
             /\ ~Resumable(task[p].mem)
             /\ Go(p, "fail")
             /\ UNCHANGED <<asset, claim, Lease, saved, ops, Bounds>>

\* _checkpointed_video: resume, or leave it to a person, or submit.
Produce(p) ==
    LET record == RecordFor(p)
        unclear == record # None /\ record.st \in {"submitting", "ambiguous", "lost"}
        confirmed == p[1] \in Confirmed /\ record.job # p[1]
    IN /\ At(p, "produce")
       /\ IF Resumable(record)
          THEN task' = [task EXCEPT ![p].rec = record, ![p].pc = "poll"]
          ELSE IF unclear /\ ~confirmed
          THEN IF record.st = "submitting"
               THEN Saves(p, [record EXCEPT !.st = "ambiguous"], "fail")
               ELSE Go(p, "fail")
          ELSE Saves(p, NewRecord(p, "pending"), "sending")
       /\ UNCHANGED <<asset, claim, Lease, saved, ops, Bounds>>

\* The record on the claim row, while the process holds it (best effort).
SaveClaim(p) ==
    /\ At(p, "saveClaim")
    /\ \/ /\ claim' = IF Holds(p) THEN [claim EXCEPT !.op = task[p].rec] ELSE claim
          /\ NoFault
       \/ claim' = claim /\ Fault
    /\ Go(p, "saveJob")
    /\ UNCHANGED <<asset, Lease, saved, ops, unsaved, Charges>>

\* The record in the job's payload, under the lease; a database error is logged.
SaveJob(p) ==
    /\ At(p, "saveJob")
    /\ \/ /\ LeaseHeld(p)
          /\ saved' = [saved EXCEPT ![p[1]] = task[p].rec]
          /\ UNCHANGED <<trouble, clean, unsaved, unnoted>>
       \/ /\ saved' = saved /\ Fault /\ unsaved' = TRUE
          /\ unnoted' = (unnoted \/ Noting(p))
    /\ Go(p, task[p].nxt)
    /\ UNCHANGED <<asset, claim, Lease, ops, charged>>

\* The lease was lost: what JobCancelled does where the checkpoint was saved.
SaveRefused(p) ==
    /\ At(p, "saveJob")
    /\ ~LeaseHeld(p)
    /\ CASE task[p].nxt \in {"put", "giveUp"} -> Go(p, task[p].nxt)
         [] task[p].nxt = "poll" -> Saves(p, [Noted(p) EXCEPT !.st = "abandoned"], "stop")
         [] task[p].nxt \in {"send", "refused"} -> Saves(p, Marked(p, "failed"), "fail")
         [] OTHER -> Go(p, IF AfterCall(p) THEN "stopped" ELSE "stop")
    /\ IF task[p].nxt = "poll" THEN Charge(p) ELSE UNCHANGED Charges
    /\ UNCHANGED <<asset, claim, Lease, saved, ops, trouble, clean, unsaved>>

\* Faulty variant: the request is not marked before it is sent.
SendUnmarked(p) == /\ At(p, "sending")
                   /\ Go(p, "send")
                   /\ UNCHANGED <<asset, claim, Lease, saved, ops, Bounds>>

Sending(p) == /\ At(p, "sending")
              /\ Saves(p, Marked(p, "submitting"), "send")
              /\ UNCHANGED <<asset, claim, Lease, saved, ops, Bounds>>

\* The paid request, which the provider may accept.
Send(p) == /\ At(p, "send")
           /\ Go(p, "await")
           /\ ops' \in {ops, ops \cup {p}}
           /\ UNCHANGED <<asset, claim, Lease, saved, Bounds>>

Answered(p) == /\ At(p, "await")
               /\ IF p \in ops
                  THEN Saves(p, [Marked(p, "submitted") EXCEPT !.op = p], "poll")
                  ELSE Saves(p, Marked(p, "pending"), "refused")
               /\ UNCHANGED <<asset, claim, Lease, saved, ops, Bounds>>

\* No answer (a timeout): never sent again, a person decides.
Unanswered(p) == /\ At(p, "await")
                 /\ Saves(p, Marked(p, "ambiguous"), "fail")
                 /\ UNCHANGED <<asset, claim, Lease, saved, ops, Bounds>>

\* The provider refused: try again, or give up.
Refused(p) ==
    /\ At(p, "refused")
    /\ \/ Go(p, "sending") /\ Disturbed
       \/ Saves(p, Marked(p, "failed"), "fail") /\ UNCHANGED trouble
    /\ UNCHANGED <<asset, claim, Lease, saved, ops, clean, unsaved, Charges>>

\* What the record says when its operation is given up.
GivenUp(p) == Marked(p, IF task[p].rec.op = p THEN "abandoned" ELSE "failed")

\* The charge is reported as soon as the provider shows a clip, or when a clip
\* that may still be billed is no longer waited for.
Poll(p) ==
    /\ At(p, "poll")
    /\ \/ /\ ~task[p].rec.noted
          /\ Charge(p)
          /\ \/ Saves(p, Noted(p), "put")                        \* done
             \/ Saves(p, Noted(p), "giveUp")                     \* timed out
             \/ Saves(p, GivenUp(p), "stop")                     \* over the budget
       \/ /\ task[p].rec.noted
          /\ Go(p, "put") \/ Go(p, "giveUp")
          /\ UNCHANGED Charges
       \/ /\ \/ Saves(p, GivenUp(p), "fail")                     \* it made no clip
             \/ task[p].rec.op # p /\ Saves(p, Marked(p, "lost"), "fail")
          /\ UNCHANGED Charges
    /\ UNCHANGED <<asset, claim, Lease, saved, ops, trouble, clean, unsaved>>

GiveUp(p) == /\ At(p, "giveUp")
             /\ Saves(p, GivenUp(p), "fail")
             /\ UNCHANGED <<asset, claim, Lease, saved, ops, Bounds>>
--------------------------------------------------------------------------------
\* AssetStore.put runs in a thread that a cancelled caller leaves behind.
Upload(p) ==
    /\ At(p, "put")
    /\ task' = [task EXCEPT ![p].pc = "storing",
                            ![p].thread = IF asset THEN "done" ELSE "insert"]
    /\ UNCHANGED <<asset, claim, Lease, saved, ops, Bounds>>

\* The row is the arbiter: the loser of two inserts keeps the winner's.
InsertAsset(p) ==
    /\ task[p].thread = "insert"
    /\ asset' = TRUE
    /\ task' = [task EXCEPT ![p].thread = IF At(p, "storing") THEN "done" ELSE "idle"]
    /\ UNCHANGED <<claim, Lease, saved, ops, Bounds>>

Stored(p) == /\ At(p, "storing")
             /\ task[p].thread = "done"
             /\ task' = [task EXCEPT ![p].pc = "stored", ![p].thread = "idle"]
             /\ UNCHANGED <<asset, claim, Lease, saved, ops, Bounds>>

\* A stopped producer keeps its claim, expired, when its operation is outstanding.
StopClaim(p) ==
    /\ At(p, "stop")
    /\ \/ /\ Holds(p) /\ claim.op # None
          /\ claim.op.st \in Outstanding
          /\ claim' = [claim EXCEPT !.expired = TRUE]
          /\ Go(p, "stopped")
          /\ NoFault
       \/ /\ ~(Holds(p) /\ claim.op # None /\ claim.op.st \in Outstanding)
          /\ claim' = claim
          /\ Go(p, "drop")
          /\ NoFault
       \/ claim' = claim /\ Go(p, "drop") /\ Fault
    /\ UNCHANGED <<asset, Lease, saved, ops, unsaved, Charges>>

AfterRelease(p) == CASE At(p, "stored") -> "collect"
                     [] At(p, "fail") -> "failed"
                     [] At(p, "drop") -> "stopped"

ReleaseClaim(p) ==
    /\ task[p].pc \in {"stored", "fail", "drop"}
    /\ \/ claim' = (IF Holds(p) THEN None ELSE claim) /\ NoFault
       \/ claim' = claim /\ Holds(p) /\ Fault
    /\ task' = [task EXCEPT ![p] = Placed([task[p] EXCEPT !.claimed = FALSE], AfterRelease(p))]
    /\ UNCHANGED <<asset, Lease, saved, ops, unsaved, Charges>>

\* The clip is stored: nothing is left to resume.
Collect(p) ==
    LET record == RecordFor(p)
    IN /\ At(p, "collect")
       /\ IF record # None /\ record.st \in {"pending"} \cup Outstanding
          THEN Saves(p, [record EXCEPT !.st = "completed"], "ok")
          ELSE Go(p, "ok")
       /\ UNCHANGED <<asset, claim, Lease, saved, ops, Bounds>>
--------------------------------------------------------------------------------
\* CancelledError at an await: the user, a shutdown, or the lost lease.
Follows(p) == At(p, "poll") \/ (task[p].pc \in Saving /\ task[p].nxt = "poll")

StopOutside(p) ==
    /\ \/ /\ task[p].pc \in {"begin", "look", "wait", "recheck", "collect"}
          /\ Go(p, "stopped")
       \/ /\ task[p].pc \in {"claim", "take"} /\ ~task[p].quit
          /\ task' = [task EXCEPT ![p].quit = TRUE]
       \/ /\ task[p].pc \in Saving /\ AfterCall(p)
          /\ Go(p, "stopped")
    /\ UNCHANGED Charges

\* Faulty variant: the likely charge is left to whoever resumes.
AbandonSilently(p) == Go(p, "stop") /\ UNCHANGED Charges

\* _abandon: the likely charge of an operation nobody follows any more.
Abandon(p) == IF task[p].rec.noted THEN Go(p, "stop") /\ UNCHANGED Charges
              ELSE Saves(p, Noted(p), "stop") /\ Charge(p)

StopProducer(p) ==
    /\ Produces(p)
    /\ IF Follows(p) THEN Abandon(p)
       ELSE /\ Go(p, "stop")
            /\ unnoted' = (unnoted \/ Noting(p))
            /\ UNCHANGED charged

Stop(p) == /\ StopOutside(p) \/ StopProducer(p)
           /\ Disturbed
           /\ UNCHANGED <<asset, claim, Lease, saved, ops, clean, unsaved>>

Crash(p) ==
    /\ task[p].pc \notin {"new", "ended"} \/ task[p].thread = "insert"
    /\ Go(p, "dead")
    /\ Disturbed
    /\ unnoted' = (unnoted \/ Noting(p))
    /\ UNCHANGED <<asset, claim, Lease, saved, ops, charged, clean, unsaved>>

\* Without renewals a claim expires; a frozen holder's may, too.
Expire ==
    /\ claim # None /\ ~claim.expired
    /\ \/ At(claim.holder, "ended") /\ NoFault
       \/ /\ Renews(claim.holder)
          /\ Fault
    /\ claim' = [claim EXCEPT !.expired = TRUE]
    /\ UNCHANGED <<asset, Lease, saved, task, ops, unsaved, Charges>>

Renew(p) == /\ Renews(p)
            /\ Holds(p) /\ claim.expired
            /\ claim' = [claim EXCEPT !.expired = FALSE]
            /\ UNCHANGED <<asset, Lease, saved, task, ops, Bounds>>

\* The cleanup job removes a claim that expired an hour ago.
Sweep == /\ claim # None /\ claim.expired
         /\ At(claim.holder, "ended")
         /\ claim' = None
         /\ UNCHANGED <<asset, Lease, saved, task, ops, Bounds>>
--------------------------------------------------------------------------------
Claiming(p) == \/ Begin(p) \/ Look(p) \/ InsertClaim(p) \/ ReadClaim(p) \/ TakeClaim(p)
               \/ Wait(p) \/ Recheck(p)
Generating(p) == \/ Refuse(p) \/ Produce(p) \/ Sending(p) \/ Send(p) \/ Answered(p)
                 \/ Unanswered(p) \/ Refused(p) \/ Poll(p) \/ GiveUp(p)
Checkpointing(p) == SaveClaim(p) \/ SaveJob(p) \/ SaveRefused(p)
Storing(p) == Upload(p) \/ Stored(p) \/ Collect(p)
Leaving(p) == StopClaim(p) \/ ReleaseClaim(p)

Step(p) == Claiming(p) \/ Generating(p) \/ Checkpointing(p) \/ Storing(p) \/ Leaving(p)
Disturbance(p) == ClaimsUnavailable(p) \/ ClaimTimeout(p) \/ Stop(p) \/ Crash(p) \/ Renew(p)

Next == \/ \E j \in Jobs : StartAttempt(j) \/ LoseLease(j)
        \/ \E p \in Procs : Step(p) \/ InsertAsset(p) \/ Disturbance(p)
        \/ Expire \/ Sweep

Spec == Init /\ [][Next]_vars

\* The event loop and the threads run on; an abandoned claim runs out.
FairSpec == /\ Spec
            /\ \A p \in Procs : WF_vars(Step(p) \/ InsertAsset(p))
            /\ WF_vars(Expire)
--------------------------------------------------------------------------------
(* Properties *)

Tasks == [pc : Places, nxt : Places \cup {"ok"}, rec : Records \cup {None},
          mem : Records \cup {None}, claimed : BOOLEAN,
          inherited : Records \cup {None}, seen : Claims \cup {None},
          quit : BOOLEAN, thread : {"idle", "insert", "done"}]

\* The rows and the processes have their shapes.
TypeOK ==
    /\ asset \in BOOLEAN
    /\ claim \in Claims \cup {None}
    /\ attempt \in [Jobs -> Nat]
    /\ running \in [Jobs -> BOOLEAN]
    /\ saved \in [Jobs -> Records \cup {None}]
    /\ task \in [Procs -> Tasks]
    /\ ops \subseteq Procs
    /\ trouble \in 0..MaxTrouble
    /\ clean \in BOOLEAN
    /\ unsaved \in BOOLEAN
    /\ charged \subseteq ops \X Jobs
    /\ unnoted \in BOOLEAN

\* Claims do their work: while the database answers and no running holder is
\* frozen past its claim, two jobs that are running never produce the clip at
\* the same time (AssetStore._acquire_claim).
OneProducer ==
    clean => \A p, q \in Procs : LeaseHeld(p) /\ Produces(p) /\ LeaseHeld(q) /\ Produces(q)
                                => p = q

\* One job pays once: when the provider accepted operations of two of its
\* attempts, one of the operations was given up with a known outcome by an
\* attempt of the job, unless a checkpoint could not be written
\* (OperationStore, _checkpointed_video).
GaveUpOn(r, op) == GaveUp(task[r].rec) /\ task[r].rec.op = op
PaidOncePerJob ==
    ~unsaved => \A p, q \in ops :
        p[1] = q[1] /\ p # q =>
            \E r \in Procs : r[1] = p[1] /\ (GaveUpOn(r, p) \/ GaveUpOn(r, q))

\* A restart does not report a charge again (VeoVideo._finish, _note_usage): an
\* attempt that polls an operation whose charge its job reported knows of it,
\* unless somebody was disturbed before the note of the report was written.
ChargedOnce ==
    clean => \A p \in Procs : /\ At(p, "poll") /\ LeaseHeld(p)
                              /\ <<task[p].rec.op, p[1]>> \in charged
                              => task[p].rec.noted \/ unnoted

\* "Budget checks never under-count" (veo.py): an operation that is left to
\* others to resume, or whose clip is being stored, has its charge reported.
ChargeReported ==
    \A p \in Procs :
        /\ task[p].pc \in {"stop", "drop", "put", "storing", "stored"}
        /\ task[p].rec # None /\ task[p].rec.st = "submitted"
        => \E j \in Jobs : <<task[p].rec.op, j>> \in charged

\* An operation that nobody gave up is polled by the process that
\* inherits it with the claim, never paid for again, unless the teacher confirmed
\* a second charge (OperationStore.get, AssetStore._claim_step).
InheritedIsResumed ==
    \A p \in Procs :
        /\ At(p, "send") /\ task[p].claimed
        /\ Resumable(task[p].inherited)
        /\ \A q \in Procs : /\ task[q].rec # None
                            /\ task[q].rec.op = task[p].inherited.op
                            => task[q].rec.st = "submitted"
        => p[1] \in Confirmed

\* Every call returns in the end, the ones that waited for a claim included: a
\* holder that stopped, crashed or lost its job never blocks the others for ever
\* (AssetStore._acquire_claim, without its time limit).
CallsEnd == <>[](\A p \in Procs : task[p].pc \in {"new", "ended"})

\* A holder that stops without an outcome keeps its claim row while the
\* operation it started may be running (AssetStore._stop_claim_quietly).
StopKeepsOperation ==
    [][\A p \in Procs : At(p, "drop") /\ Holds(p) /\ claim' = None
            => claim.op = None \/ claim.op.op # p]_vars
================================================================================
