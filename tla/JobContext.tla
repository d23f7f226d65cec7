----------------------------- MODULE JobContext -----------------------------
(***************************************************************************)
(* jobs/context.py: DBJobContext, the buffers between the threads of a     *)
(* running job and its rows. Any thread may log and report usage at any    *)
(* time, also after the job ended; the writer thread, the worker's final   *)
(* flush and the late flush threads write the buffers out, one at a time,  *)
(* while the lease may be lost and the database may fail. One action is    *)
(* one section under ctx._lock, or one transaction.                        *)
(***************************************************************************)
EXTENDS Naturals, FiniteSets, Sequences, SequencesExt

CONSTANTS
  Usages,        \* the calls of providers this job pays for
  MaxEvents,     \* bound: events ever logged
  MaxPending,    \* MAX_PENDING_EVENTS
  LateTries,     \* attempts of a late flush thread (5 in the code)
  MaxFailures    \* bound: transactions that fail with the connection

ASSUME ConstantsAssumption ==
  /\ IsFiniteSet(Usages)
  /\ {MaxEvents, MaxFailures} \subseteq Nat
  /\ {MaxPending, LateTries} \subseteq Nat \ {0}

VARIABLES
  job,       \* the job row: held under this lease, and what cost_usd adds up
  stored,    \* events: job_events in order; usage[u]: its rows in usage_events
  ctx,       \* the buffers and flags of the DBJobContext
  flush,     \* the holder of ctx._flush_lock, how far it is, its snapshot
  worker,    \* where Worker.process is
  late,      \* the late flush thread; checking: threads at their last check
  reporter,  \* reporter[u]: where record_usage of u is
  logger,    \* where a call of log / progress is, and the events so far
  history    \* unacked, rejected: counts per usage; failures; gaveUp

vars == <<job, stored, ctx, flush, worker, late, reporter, logger, history>>

-----------------------------------------------------------------------------
None == [u \in Usages |-> 0]
Plus(count, us) == [u \in Usages |-> count[u] + (IF u \in us THEN 1 ELSE 0)]

\* The subsequences of s: what is left when some of its rows are refused.
Places(n, s) == {f \in [1..n -> DOMAIN s] : \A i, k \in 1..n : i < k => f[i] < f[k]}
Remainders(s) == UNION {{[i \in 1..n |-> s[f[i]]] : f \in Places(n, s)} : n \in 0..Len(s)}

EmptySnap == [events |-> <<>>, dropped |-> 0, usage |-> {}, delta |-> {}]
NoFlush == [by |-> "nobody", stage |-> "batch", snap |-> EmptySnap]

HasPending ==
  ctx.events # <<>> \/ ctx.usage # {} \/ ctx.delta # {} \/ ctx.dropped > 0

\* _discard_locked: what belongs to the job goes, the usage stays. (The
\* progress columns, and the flag that they changed, go with their event.)
Discarded(c) ==
  [c EXCEPT !.events = <<>>, !.delta = {}, !.dropped = 0, !.pending = 0]

MarkedLost(c) == [Discarded(c) EXCEPT !.lost = TRUE]

\* _append_locked: a full buffer loses its oldest event.
Appended(c, e) ==
  IF Len(c.events) >= MaxPending
  THEN [c EXCEPT !.events = Append(Tail(c.events), e),
                 !.pending = IF Head(c.events) = c.pending THEN 0 ELSE c.pending,
                 !.dropped = c.dropped + 1]
  ELSE [c EXCEPT !.events = Append(c.events, e)]

\* _replace_pending_locked: only the last message of a stage is kept. (No
\* event is in the buffer twice.)
Replaced(c, e) ==
  LET old == {i \in DOMAIN c.events : c.events[i] = c.pending}
      rest == IF old = {} THEN c.events ELSE RemoveAt(c.events, CHOOSE i \in old : TRUE)
  IN [Appended([c EXCEPT !.events = rest], e) EXCEPT !.pending = e]

\* _spawn_late_flush
Spawned == IF late.running THEN late ELSE [late EXCEPT !.running = TRUE, !.tries = 0]

-----------------------------------------------------------------------------
(* The threads of the job *)

\* record_usage: priced and buffered, even after a lease loss, ...
Record(u) ==
  /\ reporter[u] = "none"
  /\ ctx' = [ctx EXCEPT !.usage = ctx.usage \cup {u},
                        !.delta = IF ctx.lost THEN ctx.delta ELSE ctx.delta \cup {u}]
  /\ reporter' = [reporter EXCEPT ![u] = "buffered"]
  /\ UNCHANGED <<job, stored, flush, worker, late, logger, history>>

\* ... and written by a thread of its own once the job has ended.
Report(u) ==
  /\ reporter[u] = "buffered"
  /\ late' = IF ctx.finalized THEN Spawned ELSE late
  /\ reporter' = [reporter EXCEPT ![u] = "done"]
  /\ UNCHANGED <<job, stored, ctx, flush, worker, logger, history>>

\* log and progress look at _lease_lost before they take the lock.
StartLog ==
  /\ ~logger.adding
  /\ logger.last < MaxEvents
  /\ ~ctx.lost
  /\ logger' = [adding |-> TRUE, last |-> logger.last + 1]
  /\ UNCHANGED <<job, stored, ctx, flush, worker, late, reporter, history>>

AddEvent ==
  /\ logger.adding
  /\ \/ ctx' = Appended(ctx, logger.last)                          \* log
     \/ ctx' = [Appended(ctx, logger.last) EXCEPT !.pending = 0]    \* a new stage
     \/ ctx' = Replaced(ctx, logger.last)                          \* a new message
  /\ logger' = [logger EXCEPT !.adding = FALSE]
  /\ UNCHANGED <<job, stored, flush, worker, late, reporter, history>>

\* Another worker recovered the job, or it was cancelled or settled.
LoseLease ==
  /\ job.held
  /\ job' = [job EXCEPT !.held = FALSE]
  /\ UNCHANGED <<stored, ctx, flush, worker, late, reporter, logger, history>>

\* A heartbeat or assert_lease finds the lease gone; a thread the handler left
\* behind may call assert_lease at any time.
MarkLeaseLost ==
  /\ ~job.held
  /\ ctx' = MarkedLost(ctx)
  /\ UNCHANGED <<job, stored, flush, worker, late, reporter, logger, history>>

-----------------------------------------------------------------------------
(* Flushing *)

\* The thread that flushed goes on. The worker records its outcome if it
\* still owns the job, and tries again after an error until its deadline; a
\* late thread tries LateTries times.
FlushReturns(owned) ==
  /\ flush' = NoFlush
  /\ worker' = IF flush.by # "worker" THEN worker
               ELSE IF owned THEN "transition" ELSE "finalize"
  /\ late' = IF flush.by # "late" THEN late
             ELSE [running |-> FALSE, tries |-> 0, checking |-> late.checking + 1]

FlushRaises ==
  /\ flush' = NoFlush
  /\ worker' \in IF flush.by # "worker" THEN {worker}
                 ELSE {"final", IF ctx.lost THEN "finalize" ELSE "transition"}
  /\ late' = IF flush.by # "late" THEN late
             ELSE IF late.tries + 1 < LateTries THEN [late EXCEPT !.tries = late.tries + 1]
             ELSE [late EXCEPT !.running = FALSE, !.tries = 0]

GivesUp == flush.by = "late" /\ late.tries + 1 = LateTries

\* Faulty variant: the usage is copied and stays in the buffer.
BeginCopy(by) ==
  /\ flush.by = "nobody"
  /\ flush' = [by |-> by, stage |-> "batch", snap |->
                 [events |-> ctx.events, dropped |-> ctx.dropped,
                  usage |-> ctx.usage, delta |-> ctx.delta]]
  /\ ctx' = Discarded(ctx)
  /\ UNCHANGED <<job, stored, worker, late, reporter, logger, history>>

\* flush_sync: the snapshot of a lost context is its usage only.
Begin(by) ==
  /\ flush.by = "nobody"
  /\ flush' = [by |-> by, stage |-> IF ctx.lost THEN "orphans" ELSE "batch",
               snap |-> IF ctx.lost THEN [EmptySnap EXCEPT !.usage = ctx.usage]
                        ELSE [events |-> ctx.events, dropped |-> ctx.dropped,
                              usage |-> ctx.usage, delta |-> ctx.delta]]
  /\ ctx' = IF ctx.lost THEN [ctx EXCEPT !.usage = {}]
            ELSE [Discarded(ctx) EXCEPT !.usage = {}]
  /\ UNCHANGED <<job, stored, worker, late, reporter, logger, history>>

\* The writer thread, and flush() calls of the handler.
WriterFlush == worker = "running" /\ HasPending /\ Begin("writer")
FinalFlush == worker = "final" /\ Begin("worker")
LateFlush == late.running /\ Begin("late")

\* Faulty variant: the usage of the snapshot goes with the lease.
ForgetSnapshot ==
  /\ ~job.held
  /\ ctx' = [MarkedLost(ctx) EXCEPT !.usage = {}]
  /\ flush' = [flush EXCEPT !.stage = "orphans", !.snap = [EmptySnap EXCEPT !.usage = ctx.usage]]
  /\ UNCHANGED <<job, stored, worker, late, history>>

\* _lost_during_flush: the fenced update matched nothing.
LostDuringFlush ==
  /\ ~job.held
  /\ ctx' = [MarkedLost(ctx) EXCEPT !.usage = {}]
  /\ flush' = [flush EXCEPT !.stage = "orphans",
                            !.snap = [EmptySnap EXCEPT !.usage = flush.snap.usage \cup ctx.usage]]
  /\ UNCHANGED <<job, stored, worker, late, history>>

\* One fenced transaction: the cost of the job, the event rows that are
\* kept, and the usage rows but those that are refused.
Written(kept, badUsage) ==
  LET s == flush.snap IN
  /\ job' = [job EXCEPT !.cost = Plus(job.cost, s.delta)]
  /\ stored' = [events |-> stored.events \o kept,
                usage |-> Plus(stored.usage, s.usage \ badUsage)]

\* The connection fails before anything is committed, or after everything
\* was: the caller cannot tell.
ConnectionFails(h, kept, badUsage) ==
  /\ history.failures < MaxFailures
  /\ \/ /\ UNCHANGED <<job, stored>>
        /\ history' = [h EXCEPT !.failures = history.failures + 1]
     \/ /\ Written(kept, badUsage)
        /\ history' = [h EXCEPT !.failures = history.failures + 1,
                                !.unacked = Plus(history.unacked, flush.snap.usage \cup flush.snap.delta)]

\* _write_batch, and its one retry after a connection error.
WriteBatch ==
  /\ flush.stage \in {"batch", "again"}
  /\ flush.by # "nobody"
  /\ \/ LostDuringFlush
     \/ /\ job.held
        /\ Written(flush.snap.events, {})
        /\ FlushReturns(TRUE)
        /\ UNCHANGED <<ctx, history>>
     \/ /\ job.held
        /\ ConnectionFails(history, flush.snap.events, {})
        /\ flush' = [flush EXCEPT !.stage = IF flush.stage = "batch" THEN "again" ELSE "rows"]
        /\ UNCHANGED <<ctx, worker, late>>
     \/ /\ job.held          \* the database rejects one of the rows
        /\ flush.snap.events # <<>> \/ flush.snap.usage # {}
        /\ flush' = [flush EXCEPT !.stage = "rows"]
        /\ UNCHANGED <<job, stored, ctx, worker, late, history>>
  /\ UNCHANGED <<reporter, logger>>

\* Faulty variants of _restore: behind the newer events; without the cost.
RestoredBehind(s) ==
  [ctx EXCEPT !.usage = ctx.usage \cup s.usage, !.events = ctx.events \o s.events,
              !.delta = ctx.delta \cup s.delta, !.dropped = ctx.dropped + s.dropped]
RestoredWithoutCost(s) == [ctx EXCEPT !.usage = ctx.usage \cup s.usage]

\* _restore: in front of newer data; a buffer that overflows loses its
\* oldest events, uncounted.
Restored(s) ==
  IF ctx.lost THEN [ctx EXCEPT !.usage = ctx.usage \cup s.usage]
  ELSE LET all == s.events \o ctx.events
           over == IF Len(all) > MaxPending THEN Len(all) - MaxPending ELSE 0
       IN [ctx EXCEPT !.usage = ctx.usage \cup s.usage,
                      !.events = SubSeq(all, over + 1, Len(all)),
                      !.delta = ctx.delta \cup s.delta,
                      !.dropped = ctx.dropped + s.dropped]

Without(s, kept, badUsage) == [s EXCEPT !.events = kept, !.usage = s.usage \ badUsage]

Refused(badUsage) == [history EXCEPT !.rejected = Plus(history.rejected, badUsage)]

\* _write_rows: every row in a savepoint; the rejected ones are dropped.
WriteRows ==
  /\ flush.stage = "rows"
  /\ \/ LostDuringFlush
     \/ \E kept \in Remainders(flush.snap.events), badUsage \in SUBSET flush.snap.usage :
          /\ job.held
          /\ \/ /\ Written(kept, badUsage)
                /\ history' = Refused(badUsage)
                /\ FlushReturns(TRUE)
                /\ UNCHANGED ctx
             \/ /\ ConnectionFails([Refused(badUsage) EXCEPT !.gaveUp = history.gaveUp \/ GivesUp],
                                   kept, badUsage)
                /\ ctx' = Restored(Without(flush.snap, kept, badUsage))
                /\ FlushRaises
  /\ UNCHANGED <<reporter, logger>>

\* _flush_orphaned_usage: unfenced, usage rows only.
WriteOrphans ==
  /\ flush.stage = "orphans"
  /\ UNCHANGED job
  /\ \E badUsage \in SUBSET flush.snap.usage :
       LET rows == [stored EXCEPT !.usage = Plus(stored.usage, flush.snap.usage \ badUsage)] IN
       \/ /\ stored' = rows
          /\ history' = Refused(badUsage)
          /\ FlushReturns(FALSE)
          /\ UNCHANGED ctx
       \/ /\ history.failures < MaxFailures
          /\ flush.snap.usage # {}
          /\ \E acked \in BOOLEAN :
               /\ stored' = IF acked THEN stored ELSE rows
               /\ history' = [Refused(badUsage) EXCEPT !.failures = history.failures + 1,
                                !.gaveUp = history.gaveUp \/ GivesUp,
                                !.unacked = IF acked THEN history.unacked
                                            ELSE Plus(history.unacked, flush.snap.usage)]
          /\ ctx' = [ctx EXCEPT !.usage = ctx.usage \cup (flush.snap.usage \ badUsage)]
          /\ FlushRaises
  /\ UNCHANGED <<reporter, logger>>

-----------------------------------------------------------------------------
(* The worker *)

\* The handler is over: ctx.close. Threads it abandoned may go on.
Close ==
  /\ worker = "running"
  /\ worker' = "final"
  /\ UNCHANGED <<job, stored, ctx, flush, late, reporter, logger, history>>

\* _transition: the job ends, is requeued or waits, or its lease was lost.
Transition ==
  /\ worker = "transition"
  /\ \E held \in {FALSE, job.held} : job' = [job EXCEPT !.held = held]
  /\ worker' = "finalize"
  /\ UNCHANGED <<stored, ctx, flush, late, reporter, logger, history>>

Finalize ==
  /\ worker = "finalize"
  /\ ctx' = [ctx EXCEPT !.finalized = TRUE]
  /\ worker' = "check"
  /\ UNCHANGED <<job, stored, flush, late, reporter, logger, history>>

\* finalize, then: data that is still buffered is written late.
FinalCheck ==
  /\ worker = "check"
  /\ late' = IF HasPending THEN Spawned ELSE late
  /\ worker' = "done"
  /\ UNCHANGED <<job, stored, ctx, flush, reporter, logger, history>>

\* Faulty variant: the late thread does not look again.
LateExit ==
  /\ late.checking > 0
  /\ late' = [late EXCEPT !.checking = late.checking - 1]
  /\ UNCHANGED <<job, stored, ctx, flush, worker, reporter, logger, history>>

\* The late thread has cleared its flag: anything recorded meanwhile?
LateCheck ==
  /\ late.checking > 0
  /\ late' = [(IF HasPending THEN Spawned ELSE late) EXCEPT !.checking = late.checking - 1]
  /\ UNCHANGED <<job, stored, ctx, flush, worker, reporter, logger, history>>

-----------------------------------------------------------------------------
Init ==
  /\ job = [held |-> TRUE, cost |-> None]
  /\ stored = [events |-> <<>>, usage |-> None]
  /\ ctx = [events |-> <<>>, pending |-> 0, dropped |-> 0, usage |-> {}, delta |-> {},
            lost |-> FALSE, finalized |-> FALSE]
  /\ flush = NoFlush
  /\ worker = "running"
  /\ late = [running |-> FALSE, tries |-> 0, checking |-> 0]
  /\ reporter = [u \in Usages |-> "none"]
  /\ logger = [adding |-> FALSE, last |-> 0]
  /\ history = [unacked |-> None, rejected |-> None, failures |-> 0, gaveUp |-> FALSE]

Write == WriteBatch \/ WriteRows \/ WriteOrphans

Process == FinalFlush \/ Close \/ Transition \/ Finalize \/ FinalCheck

Next ==
  \/ \E u \in Usages : Record(u) \/ Report(u)
  \/ StartLog \/ AddEvent
  \/ LoseLease \/ MarkLeaseLost
  \/ WriterFlush \/ Write
  \/ Process
  \/ LateFlush \/ LateCheck

Spec == Init /\ [][Next]_vars

\* Threads go on; handlers return; transactions end one way or another.
Fairness ==
  /\ \A u \in Usages : WF_vars(Report(u))
  /\ WF_vars(AddEvent) /\ WF_vars(Write) /\ WF_vars(Process)
  /\ WF_vars(LateFlush) /\ WF_vars(LateCheck)

FairSpec == Spec /\ Fairness

-----------------------------------------------------------------------------
(* Properties *)

Counts == [Usages -> Nat]
Snaps == [events : Seq(1..MaxEvents), dropped : Nat, usage : SUBSET Usages,
          delta : SUBSET Usages]

\* Every variable has the type of the object it stands for.
TypeOK ==
  /\ job \in [held : BOOLEAN, cost : Counts]
  /\ stored \in [events : Seq(1..MaxEvents), usage : Counts]
  /\ ctx \in [events : Seq(1..MaxEvents), pending : 0..MaxEvents, dropped : Nat,
              usage : SUBSET Usages, delta : SUBSET Usages,
              lost : BOOLEAN, finalized : BOOLEAN]
  /\ Len(ctx.events) <= MaxPending
  /\ flush \in [by : {"nobody", "writer", "worker", "late"},
                stage : {"batch", "again", "rows", "orphans"}, snap : Snaps]
  /\ worker \in {"running", "final", "transition", "finalize", "check", "done"}
  /\ late \in [running : BOOLEAN, tries : 0..LateTries - 1, checking : Nat]
  /\ reporter \in [Usages -> {"none", "buffered", "done"}]
  /\ logger \in [adding : BOOLEAN, last : 0..MaxEvents]
  /\ history \in [unacked : Counts, rejected : Counts, failures : 0..MaxFailures, gaveUp : BOOLEAN]

Settled(u) == stored.usage[u] + history.rejected[u] > 0
Incurred(u) == reporter[u] # "none"

\* "Usage rows are billing facts": a usage that was incurred is buffered, in
\* a flush, stored, or was refused by the database; a lost lease, a failed
\* transaction or a poisoned batch never makes it disappear.
UsageAccounted ==
  \A u \in Usages :
    Incurred(u) => u \in ctx.usage \cup flush.snap.usage \/ Settled(u)

\* A usage is billed again only when the database committed a transaction
\* and the connection failed before it could say so.
BilledOnce ==
  \A u \in Usages :
    stored.usage[u] + history.rejected[u] <= 1 + history.unacked[u]

Count(u, us) == IF u \in us THEN 1 ELSE 0
Costed(u) == job.cost[u] + Count(u, ctx.delta) + Count(u, flush.snap.delta)
Used(u) == stored.usage[u] + history.rejected[u]
             + Count(u, ctx.usage) + Count(u, flush.snap.usage)

\* While the job is ours, its cost_usd never falls behind its usage rows (and
\* the refused ones), counting what is still buffered, and runs ahead only
\* by commits that were not acknowledged, however often a batch fails.
CostIsUsage ==
  job.held => \A u \in Usages :
    Used(u) <= Costed(u) /\ Costed(u) <= Used(u) + history.unacked[u]

\* The progress stream shows the events in the order they were logged; what
\* is shown out of order was shown before.
EventsInOrder ==
  \A i, k \in DOMAIN stored.events :
    i < k /\ stored.events[i] > stored.events[k] =>
      \E e \in 1..(i - 1) : stored.events[e] = stored.events[k]

\* "Usage reported later - by thread work the job abandoned - is still
\* written": every usage is written, unless the database stays away.
UsageWritten == \A u \in Usages : Incurred(u) ~> Settled(u) \/ history.gaveUp

=============================================================================
