-------------------------- MODULE JobContextProofs --------------------------
(***************************************************************************)
(* Proofs about the buffers of a job (module JobContext): no usage is      *)
(* lost, none is written twice without a commit nobody heard of, the cost  *)
(* of the job is its usage, and its events are shown in order, for every   *)
(* set of usages and every bound. The first half is about the accounts,    *)
(* the second about the events; each has an inductive invariant.           *)
(***************************************************************************)
EXTENDS JobContext, SequenceTheorems, TLAPS

-----------------------------------------------------------------------------
(* The part of the types that the accounts need *)

Keys ==
  /\ DOMAIN job = {"held", "cost"} /\ DOMAIN stored = {"events", "usage"}
  /\ DOMAIN ctx = {"events", "pending", "dropped", "usage", "delta", "lost", "finalized"}
  /\ DOMAIN flush = {"by", "stage", "snap"}
  /\ DOMAIN flush.snap = {"events", "dropped", "usage", "delta"}
  /\ DOMAIN history = {"unacked", "rejected", "failures", "gaveUp"}

AccountsType ==
  /\ job.held \in BOOLEAN /\ job.cost \in Counts
  /\ stored.usage \in Counts
  /\ ctx.usage \subseteq Usages /\ ctx.delta \subseteq Usages /\ ctx.lost \in BOOLEAN
  /\ flush.snap.usage \subseteq Usages /\ flush.snap.delta \subseteq Usages
  /\ history.unacked \in Counts /\ history.rejected \in Counts
  /\ reporter \in [Usages -> {"none", "buffered", "done"}]

\* Nobody flushes: there is no snapshot.
FlushIdle == flush.by = "nobody" => flush = NoFlush

\* A usage that was not incurred is nowhere.
Fresh == \A u \in Usages : reporter[u] = "none" =>
  /\ u \notin ctx.usage /\ u \notin flush.snap.usage
  /\ u \notin ctx.delta /\ u \notin flush.snap.delta
  /\ stored.usage[u] = 0 /\ history.rejected[u] = 0

\* A usage is in the buffer or in the snapshot, not in both.
Apart ==
  /\ ctx.usage \cap flush.snap.usage = {}
  /\ ctx.delta \cap flush.snap.delta = {}

\* A lost context and a flush of orphans have no lease any more.
LostIsLost ==
  /\ ctx.lost => ~job.held
  /\ flush.stage = "orphans" => ~job.held

\* A usage that will be written under the lease will be charged to the job.
Charged ==
  job.held => ctx.usage \subseteq ctx.delta /\ flush.snap.usage \subseteq flush.snap.delta

BaseInv == Keys /\ AccountsType /\ FlushIdle /\ Fresh /\ Apart /\ LostIsLost /\ Charged

\* No usage is written more often than it was incurred, but for the commits
\* nobody heard of.
Billed == \A u \in Usages : Used(u) <= 1 + history.unacked[u]

AccountInv == BaseInv /\ UsageAccounted /\ Billed /\ CostIsUsage

-----------------------------------------------------------------------------
(* What a step does to the accounts *)

SameBuffer == ctx'.usage = ctx.usage /\ ctx'.delta = ctx.delta /\ ctx'.lost = ctx.lost

SameBooks ==
  /\ job'.cost = job.cost /\ stored'.usage = stored.usage
  /\ history'.unacked = history.unacked /\ history'.rejected = history.rejected

\* Nothing but the lease changes, and that only for the worse.
Still ==
  /\ SameBooks /\ SameBuffer /\ UNCHANGED flush
  /\ job'.held \in BOOLEAN /\ (job'.held => job.held)
  /\ reporter' \in [Usages -> {"none", "buffered", "done"}]
  /\ \A u \in Usages : reporter'[u] = "none" <=> reporter[u] = "none"

Records(u) ==
  /\ reporter[u] = "none" /\ reporter' = [reporter EXCEPT ![u] = "buffered"]
  /\ ctx'.usage = ctx.usage \cup {u} /\ ctx'.lost = ctx.lost
  /\ ctx'.delta = IF ctx.lost THEN ctx.delta ELSE ctx.delta \cup {u}
  /\ SameBooks /\ UNCHANGED <<job, flush>>

Loses ==
  /\ ~job.held /\ UNCHANGED <<job, flush, reporter>> /\ SameBooks
  /\ ctx'.usage = ctx.usage /\ ctx'.delta = {} /\ ctx'.lost

Takes ==
  /\ flush.by = "nobody" /\ flush'.by # "nobody"
  /\ UNCHANGED <<job, reporter>> /\ SameBooks
  /\ ctx'.usage = {} /\ flush'.snap.usage = ctx.usage /\ ctx'.lost = ctx.lost
  /\ \/ /\ ctx.lost /\ ctx'.delta = ctx.delta /\ flush'.snap.delta = {}
     \/ /\ ~ctx.lost /\ ctx'.delta = {} /\ flush'.snap.delta = ctx.delta
        /\ flush'.stage # "orphans"

\* A flush goes on with the usage of its snapshot and of the buffer.
LosesInFlush ==
  /\ ~job.held /\ UNCHANGED <<job, reporter>> /\ SameBooks /\ flush'.by # "nobody"
  /\ ctx'.usage = {} /\ ctx'.delta = {} /\ ctx'.lost
  /\ flush'.snap.usage = flush.snap.usage \cup ctx.usage /\ flush'.snap.delta = {}

\* The database has the snapshot but for the rows it refused.
Charges == job'.cost = Plus(job.cost, flush.snap.delta)
Stores(bad) == stored'.usage = Plus(stored.usage, flush.snap.usage \ bad)
Refuses(bad) == history'.rejected = Plus(history.rejected, bad)

Commits(bad) ==
  /\ bad \subseteq flush.snap.usage
  /\ job.held /\ job'.held = job.held /\ UNCHANGED reporter /\ SameBuffer /\ flush' = NoFlush
  /\ Charges /\ Stores(bad) /\ Refuses(bad) /\ history'.unacked = history.unacked

\* A commit nobody heard of.
Unheard ==
  /\ Charges
  /\ history'.unacked = Plus(history.unacked, flush.snap.usage \cup flush.snap.delta)

KeepsSnap ==
  /\ flush'.snap = flush.snap /\ flush'.by = flush.by /\ flush.by # "nobody"
  /\ flush'.stage # "orphans"
  /\ job.held /\ job'.held = job.held /\ UNCHANGED reporter /\ SameBuffer
  /\ history'.rejected = history.rejected
  /\ SameBooks \/ (Unheard /\ Stores({}))

GivesBack(bad) ==
  /\ bad \subseteq flush.snap.usage
  /\ job.held /\ job'.held = job.held /\ UNCHANGED reporter /\ flush' = NoFlush
  /\ ctx'.usage = ctx.usage \cup (flush.snap.usage \ bad) /\ ctx'.lost = ctx.lost
  /\ ~ctx.lost => ctx'.delta = ctx.delta \cup flush.snap.delta
  /\ Refuses(bad)
  /\ \/ /\ job'.cost = job.cost /\ stored'.usage = stored.usage
        /\ history'.unacked = history.unacked
     \/ /\ Unheard /\ Stores(bad)

Orphans(bad) ==
  /\ bad \subseteq flush.snap.usage /\ flush.stage = "orphans"
  /\ UNCHANGED <<job, reporter>> /\ flush' = NoFlush /\ Refuses(bad)
  /\ ctx'.delta = ctx.delta /\ ctx'.lost = ctx.lost
  /\ \/ /\ ctx'.usage = ctx.usage /\ Stores(bad) /\ history'.unacked = history.unacked
     \/ /\ ctx'.usage = ctx.usage \cup (flush.snap.usage \ bad)
        /\ stored'.usage = stored.usage /\ history'.unacked = history.unacked
     \/ /\ ctx'.usage = ctx.usage \cup (flush.snap.usage \ bad) /\ Stores(bad)
        /\ history'.unacked = Plus(history.unacked, flush.snap.usage)

Shape ==
  \/ Still \/ Loses \/ Takes \/ LosesInFlush \/ KeepsSnap
  \/ \E u \in Usages : Records(u)
  \/ \E bad \in SUBSET Usages : Commits(bad) \/ GivesBack(bad) \/ Orphans(bad)

-----------------------------------------------------------------------------
(* Every step has such a shape *)

\* Plus counts each usage of the set once more and leaves the others.
LEMMA PlusCounts ==
  ASSUME NEW c \in Counts, NEW us
  PROVE  /\ Plus(c, us) \in Counts
         /\ \A u \in Usages : Plus(c, us)[u] = c[u] + Count(u, us)
BY DEF Plus, Counts, Count

\* The buffer of events does not touch the accounts.
LEMMA BufferRows ==
  ASSUME Keys
  PROVE  /\ \A e : \A c \in {Appended(ctx, e), [Appended(ctx, e) EXCEPT !.pending = 0], Replaced(ctx, e)} :
              c.usage = ctx.usage /\ c.delta = ctx.delta /\ c.lost = ctx.lost
                /\ DOMAIN c = DOMAIN ctx
         /\ \A c \in {Discarded(ctx), MarkedLost(ctx)} :
              c.usage = ctx.usage /\ c.delta = {} /\ DOMAIN c = DOMAIN ctx
         /\ Discarded(ctx).lost = ctx.lost /\ MarkedLost(ctx).lost
<1>1. ASSUME NEW c, DOMAIN c = DOMAIN ctx, NEW e
      PROVE  /\ Appended(c, e).usage = c.usage /\ Appended(c, e).delta = c.delta
             /\ Appended(c, e).lost = c.lost /\ DOMAIN Appended(c, e) = DOMAIN ctx
  BY <1>1 DEF Keys, Appended
<1>2. ASSUME NEW e
      PROVE  /\ Replaced(ctx, e).usage = ctx.usage /\ Replaced(ctx, e).delta = ctx.delta
             /\ Replaced(ctx, e).lost = ctx.lost /\ DOMAIN Replaced(ctx, e) = DOMAIN ctx
  <2> DEFINE old == {i \in DOMAIN ctx.events : ctx.events[i] = ctx.pending}
             rest == IF old = {} THEN ctx.events ELSE RemoveAt(ctx.events, CHOOSE i \in old : TRUE)
             c == [ctx EXCEPT !.events = rest]
  <2>1. c.usage = ctx.usage /\ c.delta = ctx.delta /\ c.lost = ctx.lost /\ DOMAIN c = DOMAIN ctx
    BY DEF Keys
  <2> HIDE DEF c
  <2>2. Replaced(ctx, e) = [Appended(c, e) EXCEPT !.pending = e]
    BY DEF Replaced, c
  <2> QED  BY <1>1, <2>1, <2>2 DEF Keys
<1>3. ASSUME NEW e, NEW c, c = [Appended(ctx, e) EXCEPT !.pending = 0]
      PROVE  c.usage = ctx.usage /\ c.delta = ctx.delta /\ c.lost = ctx.lost /\ DOMAIN c = DOMAIN ctx
  BY <1>1, <1>3 DEF Keys
<1>4. /\ Discarded(ctx).usage = ctx.usage /\ Discarded(ctx).delta = {}
      /\ Discarded(ctx).lost = ctx.lost /\ DOMAIN Discarded(ctx) = DOMAIN ctx
  BY DEF Keys, Discarded
<1>5. /\ MarkedLost(ctx).usage = ctx.usage /\ MarkedLost(ctx).delta = {}
      /\ MarkedLost(ctx).lost /\ DOMAIN MarkedLost(ctx) = DOMAIN ctx
  BY <1>4 DEF Keys, MarkedLost
<1> QED  BY <1>1, <1>2, <1>3, <1>4, <1>5

\* record_usage puts the usage into the buffer, report only says so.
LEMMA ReporterSteps ==
  ASSUME BaseInv, NEW u \in Usages, Record(u) \/ Report(u)
  PROVE  Shape /\ Keys'
<1>1. CASE Record(u)
  <2>1. Records(u)
    BY <1>1 DEF Record, Records, BaseInv, Keys, SameBooks
  <2> QED  BY <1>1, <2>1 DEF Shape, Record, BaseInv, Keys
<1>2. CASE Report(u)
  <2>1. reporter' \in [Usages -> {"none", "buffered", "done"}]
    BY <1>2 DEF Report, BaseInv, AccountsType
  <2>2. \A x \in Usages : reporter'[x] = "none" <=> reporter[x] = "none"
    BY <1>2 DEF Report, BaseInv, AccountsType
  <2>3. Still
    BY <1>2, <2>1, <2>2 DEF Report, Still, SameBooks, SameBuffer, BaseInv, AccountsType
  <2> QED  BY <1>2, <2>3 DEF Shape, Report, BaseInv, Keys
<1> QED  BY <1>1, <1>2

\* Logging, the process of the worker and the late threads leave the accounts.
LEMMA QuietSteps ==
  ASSUME BaseInv, StartLog \/ AddEvent \/ LoseLease \/ Close \/ Transition \/ Finalize
                    \/ FinalCheck \/ LateCheck
  PROVE  Shape /\ Keys'
<1>1. ASSUME SameBuffer, DOMAIN ctx' = DOMAIN ctx,
             UNCHANGED <<stored, flush, reporter, history>>,
             job'.held \in BOOLEAN, job'.held => job.held,
             job'.cost = job.cost, DOMAIN job' = DOMAIN job
      PROVE  Shape /\ Keys'
  <2>1. Still
    BY <1>1 DEF Still, SameBooks, BaseInv, AccountsType
  <2>2. Keys'
    BY <1>1 DEF Keys, BaseInv
  <2> QED  BY <2>1, <2>2 DEF Shape
<1>2. CASE AddEvent
  <2>1. ctx' \in {Appended(ctx, logger.last), [Appended(ctx, logger.last) EXCEPT !.pending = 0],
                  Replaced(ctx, logger.last)}
    BY <1>2 DEF AddEvent
  <2>2. SameBuffer /\ DOMAIN ctx' = DOMAIN ctx
    BY <2>1, BufferRows DEF SameBuffer, BaseInv
  <2> QED  BY <1>1, <1>2, <2>2 DEF AddEvent, BaseInv, AccountsType
<1>3. CASE LoseLease
  <2>1. job'.held = FALSE /\ job'.cost = job.cost /\ DOMAIN job' = DOMAIN job
    BY <1>3 DEF LoseLease, BaseInv, Keys
  <2> QED  BY <1>1, <1>3, <2>1 DEF LoseLease, SameBuffer
<1>4. CASE Transition
  <2>1. /\ job'.held \in {FALSE, job.held} /\ job'.cost = job.cost
        /\ DOMAIN job' = DOMAIN job
    BY <1>4 DEF Transition, BaseInv, Keys
  <2> QED  BY <1>1, <1>4, <2>1 DEF Transition, SameBuffer, BaseInv, AccountsType
<1>5. CASE Finalize
  <2>1. SameBuffer /\ DOMAIN ctx' = DOMAIN ctx
    BY <1>5 DEF Finalize, SameBuffer, BaseInv, Keys
  <2> QED  BY <1>1, <1>5, <2>1 DEF Finalize, BaseInv, AccountsType
<1>6. CASE StartLog \/ Close \/ FinalCheck \/ LateCheck
  <2>1. UNCHANGED <<job, stored, ctx, flush, reporter, history>>
    BY <1>6 DEF StartLog, Close, FinalCheck, LateCheck
  <2> QED  BY <1>1, <2>1 DEF SameBuffer, BaseInv, AccountsType
<1> QED  BY <1>2, <1>3, <1>4, <1>5, <1>6

\* A heartbeat that finds the lease gone discards what belongs to the job.
LEMMA MarkShape == ASSUME BaseInv, MarkLeaseLost PROVE Shape /\ Keys'
<1>1. Loses
  BY BufferRows DEF MarkLeaseLost, Loses, SameBooks, BaseInv
<1>2. DOMAIN ctx' = DOMAIN ctx
  BY BufferRows DEF MarkLeaseLost, BaseInv
<1>3. Keys'
  BY <1>2 DEF MarkLeaseLost, Keys, BaseInv
<1> QED  BY <1>1, <1>3 DEF Shape

\* A flush starts with a snapshot that leaves no usage in the buffer.
LEMMA BeginShape ==
  ASSUME BaseInv, NEW by, by # "nobody", Begin(by)
  PROVE  Shape /\ Keys'
<1>1. CASE ctx.lost
  <2>1. ctx' = [ctx EXCEPT !.usage = {}]
    BY <1>1 DEF Begin
  <2>2. ctx'.usage = {} /\ ctx'.delta = ctx.delta /\ ctx'.lost = ctx.lost /\ DOMAIN ctx' = DOMAIN ctx
    BY <2>1 DEF BaseInv, Keys
  <2>3. flush' = [by |-> by, stage |-> "orphans", snap |-> [EmptySnap EXCEPT !.usage = ctx.usage]]
    BY <1>1 DEF Begin
  <2>4. /\ flush'.by = by /\ flush'.snap.usage = ctx.usage /\ flush'.snap.delta = {}
        /\ DOMAIN flush' = DOMAIN flush /\ DOMAIN flush'.snap = DOMAIN flush.snap
    BY <2>3 DEF EmptySnap, BaseInv, Keys
  <2>5. Takes
    BY <1>1, <2>2, <2>4 DEF Takes, Begin, SameBooks
  <2>6. Keys'
    BY <2>2, <2>4 DEF Begin, Keys, BaseInv
  <2> QED  BY <2>5, <2>6 DEF Shape
<1>2. CASE ~ctx.lost
  <2> DEFINE c == Discarded(ctx)
  <2>1. c.usage = ctx.usage /\ c.delta = {} /\ c.lost = ctx.lost /\ DOMAIN c = DOMAIN ctx
    BY BufferRows DEF BaseInv
  <2> HIDE DEF c
  <2>2. ctx' = [c EXCEPT !.usage = {}]
    BY <1>2 DEF Begin, c
  <2>3. ctx'.usage = {} /\ ctx'.delta = {} /\ ctx'.lost = ctx.lost /\ DOMAIN ctx' = DOMAIN ctx
    BY <2>1, <2>2 DEF BaseInv, Keys
  <2>4. flush' = [by |-> by, stage |-> "batch",
                  snap |-> [events |-> ctx.events, dropped |-> ctx.dropped,
                            usage |-> ctx.usage, delta |-> ctx.delta]]
    BY <1>2 DEF Begin
  <2>5. /\ flush'.by = by /\ flush'.snap.usage = ctx.usage /\ flush'.snap.delta = ctx.delta
        /\ flush'.stage = "batch"
        /\ DOMAIN flush' = DOMAIN flush /\ DOMAIN flush'.snap = DOMAIN flush.snap
    BY <2>4 DEF BaseInv, Keys
  <2>6. Takes
    BY <1>2, <2>3, <2>5 DEF Takes, Begin, SameBooks
  <2>7. Keys'
    BY <2>3, <2>5 DEF Begin, Keys, BaseInv
  <2> QED  BY <2>6, <2>7 DEF Shape
<1> QED  BY <1>1, <1>2

\* A flush that finds the lease gone keeps its usage for an unfenced write.
LEMMA LostShape ==
  ASSUME BaseInv, LostDuringFlush, flush.by # "nobody", UNCHANGED reporter
  PROVE  Shape /\ Keys'
<1> DEFINE c == MarkedLost(ctx)
<1>1. c.delta = {} /\ c.lost /\ DOMAIN c = DOMAIN ctx
  BY BufferRows DEF BaseInv
<1> HIDE DEF c
<1>2. ctx' = [c EXCEPT !.usage = {}]
  BY DEF LostDuringFlush, c
<1>3. ctx'.usage = {} /\ ctx'.delta = {} /\ ctx'.lost /\ DOMAIN ctx' = DOMAIN ctx
  BY <1>1, <1>2 DEF BaseInv, Keys
<1>4. /\ flush'.by = flush.by /\ flush'.snap = [EmptySnap EXCEPT !.usage = flush.snap.usage \cup ctx.usage]
      /\ DOMAIN flush' = DOMAIN flush
  BY DEF LostDuringFlush, BaseInv, Keys
<1>5. /\ flush'.snap.usage = flush.snap.usage \cup ctx.usage /\ flush'.snap.delta = {}
      /\ DOMAIN flush'.snap = DOMAIN flush.snap
  BY <1>4 DEF EmptySnap, BaseInv, Keys
<1>6. LosesInFlush
  BY <1>3, <1>4, <1>5 DEF LostDuringFlush, LosesInFlush, SameBooks
<1>7. Keys'
  BY <1>3, <1>4, <1>5 DEF LostDuringFlush, Keys, BaseInv
<1> QED  BY <1>6, <1>7 DEF Shape

\* A transaction changes the books and nothing else of its rows.
LEMMA WrittenBooks ==
  ASSUME Keys, NEW kept, NEW badUsage, Written(kept, badUsage)
  PROVE  /\ Charges /\ Stores(badUsage) /\ job'.held = job.held
         /\ DOMAIN job' = DOMAIN job /\ DOMAIN stored' = DOMAIN stored
BY DEF Written, Charges, Stores, Keys

\* What a connection that fails leaves of the books.
LEMMA FailureBooks ==
  ASSUME Keys, NEW h, DOMAIN h = DOMAIN history, h.unacked = history.unacked,
         NEW kept, NEW badUsage, ConnectionFails(h, kept, badUsage)
  PROVE  /\ history'.rejected = h.rejected /\ job'.held = job.held
         /\ \/ /\ UNCHANGED <<job, stored>> /\ history'.unacked = history.unacked
            \/ Unheard /\ Stores(badUsage)
         /\ DOMAIN job' = DOMAIN job /\ DOMAIN stored' = DOMAIN stored
         /\ DOMAIN history' = DOMAIN history
<1>1. CASE /\ UNCHANGED <<job, stored>>
           /\ history' = [h EXCEPT !.failures = history.failures + 1]
  BY <1>1 DEF Keys
<1>2. CASE /\ Written(kept, badUsage)
           /\ history' = [h EXCEPT !.failures = history.failures + 1,
                !.unacked = Plus(history.unacked, flush.snap.usage \cup flush.snap.delta)]
  <2>1. /\ history'.rejected = h.rejected /\ DOMAIN history' = DOMAIN history
        /\ history'.unacked = Plus(history.unacked, flush.snap.usage \cup flush.snap.delta)
    BY <1>2 DEF Keys
  <2> QED  BY <1>2, <2>1, WrittenBooks DEF Unheard
<1> QED  BY <1>1, <1>2 DEF ConnectionFails

\* The first transaction of a flush, or its one retry.
LEMMA BatchShape == ASSUME BaseInv, WriteBatch PROVE Shape /\ Keys'
<1> flush.by # "nobody" /\ UNCHANGED reporter /\ Keys
  BY DEF WriteBatch, BaseInv
<1>1. CASE LostDuringFlush
  BY <1>1, LostShape
<1>2. CASE job.held /\ Written(flush.snap.events, {}) /\ FlushReturns(TRUE) /\ UNCHANGED <<ctx, history>>
  <2>1. {} \subseteq flush.snap.usage /\ {} \in SUBSET Usages
    OBVIOUS
  <2>2. Refuses({})
    <3>1. history.rejected = [u \in Usages |-> history.rejected[u]]
      BY DEF BaseInv, AccountsType, Counts
    <3>2. \A u \in Usages : history.rejected[u] + 0 = history.rejected[u]
      BY DEF BaseInv, AccountsType, Counts
    <3>3. Plus(history.rejected, {}) = [u \in Usages |-> history.rejected[u]]
      BY <3>2 DEF Plus
    <3> QED  BY <1>2, <3>1, <3>3 DEF Refuses
  <2>3. Commits({})
    BY <1>2, <2>1, <2>2, WrittenBooks DEF Commits, FlushReturns, SameBuffer
  <2>4. Keys'
    BY <1>2, WrittenBooks DEF Keys, FlushReturns, NoFlush, EmptySnap
  <2> QED  BY <2>1, <2>3, <2>4 DEF Shape
<1>3. CASE /\ job.held /\ ConnectionFails(history, flush.snap.events, {})
           /\ flush' = [flush EXCEPT !.stage = IF flush.stage = "batch" THEN "again" ELSE "rows"]
           /\ UNCHANGED <<ctx, worker, late>>
  <2>1. /\ flush'.snap = flush.snap /\ flush'.by = flush.by /\ flush'.stage # "orphans"
        /\ DOMAIN flush' = DOMAIN flush
    BY <1>3 DEF Keys
  <2>2. KeepsSnap
    BY <1>3, <2>1, FailureBooks DEF KeepsSnap, SameBooks, SameBuffer
  <2>3. Keys'
    BY <1>3, <2>1, FailureBooks DEF Keys
  <2> QED  BY <2>2, <2>3 DEF Shape
<1>4. CASE /\ job.held /\ flush' = [flush EXCEPT !.stage = "rows"]
           /\ UNCHANGED <<job, stored, ctx, worker, late, history>>
  <2>1. /\ flush'.snap = flush.snap /\ flush'.by = flush.by /\ flush'.stage # "orphans"
        /\ DOMAIN flush' = DOMAIN flush
    BY <1>4 DEF Keys
  <2>2. KeepsSnap
    BY <1>4, <2>1 DEF KeepsSnap, SameBooks, SameBuffer
  <2>3. Keys'
    BY <1>4, <2>1 DEF Keys
  <2> QED  BY <2>2, <2>3 DEF Shape
<1> QED  BY <1>1, <1>2, <1>3, <1>4 DEF WriteBatch

\* _restore gives the usage back, and its cost unless the lease is known lost.
LEMMA RestoredRow ==
  ASSUME Keys, NEW s
  PROVE  /\ Restored(s).usage = ctx.usage \cup s.usage /\ Restored(s).lost = ctx.lost
         /\ ~ctx.lost => Restored(s).delta = ctx.delta \cup s.delta
         /\ ctx.lost => Restored(s).delta = ctx.delta
         /\ DOMAIN Restored(s) = DOMAIN ctx
<1>1. CASE ctx.lost
  BY <1>1 DEF Restored, Keys
<1>2. CASE ~ctx.lost
  BY <1>2 DEF Restored, Keys
<1> QED  BY <1>1, <1>2

\* The rows one by one, each in a savepoint.
LEMMA RowsShape == ASSUME BaseInv, WriteRows PROVE Shape /\ Keys'
<1>1. flush.by # "nobody" /\ UNCHANGED reporter /\ Keys
  BY DEF WriteRows, BaseInv, FlushIdle, NoFlush
<1>2. CASE LostDuringFlush
  BY <1>1, <1>2, LostShape
<1>3. ASSUME NEW kept \in Remainders(flush.snap.events), NEW badUsage \in SUBSET flush.snap.usage,
             job.held, Written(kept, badUsage), history' = Refused(badUsage),
             FlushReturns(TRUE), UNCHANGED ctx
      PROVE  Shape /\ Keys'
  <2>1. Refuses(badUsage) /\ history'.unacked = history.unacked /\ DOMAIN history' = DOMAIN history
    BY <1>1, <1>3 DEF Refused, Refuses, Keys
  <2>2. badUsage \in SUBSET Usages
    BY DEF BaseInv, AccountsType
  <2>3. Commits(badUsage)
    BY <1>1, <1>3, <2>1, WrittenBooks DEF Commits, FlushReturns, SameBuffer
  <2>4. Keys'
    BY <1>1, <1>3, <2>1, WrittenBooks DEF Keys, FlushReturns, NoFlush, EmptySnap
  <2> QED  BY <2>2, <2>3, <2>4 DEF Shape
<1>4. ASSUME NEW kept \in Remainders(flush.snap.events), NEW badUsage \in SUBSET flush.snap.usage,
             job.held,
             ConnectionFails([Refused(badUsage) EXCEPT !.gaveUp = history.gaveUp \/ GivesUp],
                             kept, badUsage),
             ctx' = Restored(Without(flush.snap, kept, badUsage)),
             FlushRaises
      PROVE  Shape /\ Keys'
  <2> DEFINE h == [Refused(badUsage) EXCEPT !.gaveUp = history.gaveUp \/ GivesUp]
             s == Without(flush.snap, kept, badUsage)
  <2>1. /\ DOMAIN h = DOMAIN history /\ h.unacked = history.unacked
        /\ h.rejected = Plus(history.rejected, badUsage)
    BY <1>1 DEF Refused, Keys
  <2>2. s.usage = flush.snap.usage \ badUsage /\ s.delta = flush.snap.delta
    BY <1>1 DEF Without, Keys
  <2>3. ConnectionFails(h, kept, badUsage) /\ ctx' = Restored(s)
    BY <1>4
  <2> HIDE DEF h, s
  <2>4. /\ ctx'.usage = ctx.usage \cup (flush.snap.usage \ badUsage) /\ ctx'.lost = ctx.lost
        /\ ~ctx.lost => ctx'.delta = ctx.delta \cup flush.snap.delta
        /\ ctx.lost => ctx'.delta = ctx.delta
        /\ DOMAIN ctx' = DOMAIN ctx
    BY <1>1, <2>2, <2>3, RestoredRow
  <2>5. /\ history'.rejected = h.rejected /\ job'.held = job.held
        /\ \/ /\ UNCHANGED <<job, stored>> /\ history'.unacked = history.unacked
           \/ Unheard /\ Stores(badUsage)
        /\ DOMAIN job' = DOMAIN job /\ DOMAIN stored' = DOMAIN stored
        /\ DOMAIN history' = DOMAIN history
    BY <1>1, <2>1, <2>3, FailureBooks
  <2>6. badUsage \in SUBSET Usages
    BY DEF BaseInv, AccountsType
  <2>7. GivesBack(badUsage)
    BY <1>1, <1>4, <2>1, <2>4, <2>5 DEF GivesBack, FlushRaises, Refuses
  <2>8. Keys'
    BY <1>1, <1>4, <2>4, <2>5 DEF Keys, FlushRaises, NoFlush, EmptySnap
  <2> QED  BY <2>6, <2>7, <2>8 DEF Shape
<1> QED  BY <1>2, <1>3, <1>4 DEF WriteRows

\* The usage of a lost job, written without its lease.
LEMMA OrphansShape == ASSUME BaseInv, WriteOrphans PROVE Shape /\ Keys'
<1>1. flush.stage = "orphans" /\ UNCHANGED <<job, reporter>> /\ Keys
  BY DEF WriteOrphans, BaseInv
<1>2. PICK badUsage \in SUBSET flush.snap.usage :
       LET rows == [stored EXCEPT !.usage = Plus(stored.usage, flush.snap.usage \ badUsage)] IN
       \/ /\ stored' = rows
          /\ history' = Refused(badUsage)
          /\ FlushReturns(FALSE)
          /\ UNCHANGED ctx
       \/ /\ history.failures < MaxFailures
          /\ flush.snap.usage # {}
          /\ \E acked \in BOOLEAN :
               /\ stored' = IF acked THEN stored ELSE rows
               /\ history' = [Refused(badUsage) EXCEPT !.failures = history.failures + 1,
                                !.gaveUp = history.gaveUp \/ GivesUp,
                                !.unacked = IF acked THEN history.unacked
                                            ELSE Plus(history.unacked, flush.snap.usage)]
          /\ ctx' = [ctx EXCEPT !.usage = ctx.usage \cup (flush.snap.usage \ badUsage)]
          /\ FlushRaises
  BY DEF WriteOrphans
<1> DEFINE rows == [stored EXCEPT !.usage = Plus(stored.usage, flush.snap.usage \ badUsage)]
<1>3. rows.usage = Plus(stored.usage, flush.snap.usage \ badUsage) /\ DOMAIN rows = DOMAIN stored
  BY <1>1 DEF Keys
<1> HIDE DEF rows
<1>4. badUsage \in SUBSET Usages
  BY DEF BaseInv, AccountsType
<1>5. CASE /\ stored' = rows /\ history' = Refused(badUsage)
           /\ FlushReturns(FALSE) /\ UNCHANGED ctx
  <2>1. Refuses(badUsage) /\ history'.unacked = history.unacked /\ DOMAIN history' = DOMAIN history
    BY <1>1, <1>5 DEF Refused, Refuses, Keys
  <2>2. Orphans(badUsage)
    BY <1>1, <1>3, <1>5, <2>1 DEF Orphans, FlushReturns, Stores
  <2>3. Keys'
    BY <1>1, <1>3, <1>5, <2>1 DEF Keys, FlushReturns, NoFlush, EmptySnap
  <2> QED  BY <1>4, <2>2, <2>3 DEF Shape
<1>6. ASSUME NEW acked \in BOOLEAN,
             stored' = IF acked THEN stored ELSE rows,
             history' = [Refused(badUsage) EXCEPT !.failures = history.failures + 1,
                           !.gaveUp = history.gaveUp \/ GivesUp,
                           !.unacked = IF acked THEN history.unacked
                                       ELSE Plus(history.unacked, flush.snap.usage)],
             ctx' = [ctx EXCEPT !.usage = ctx.usage \cup (flush.snap.usage \ badUsage)],
             FlushRaises
      PROVE  Shape /\ Keys'
  <2>1. /\ Refuses(badUsage) /\ DOMAIN history' = DOMAIN history
        /\ history'.unacked = IF acked THEN history.unacked
                              ELSE Plus(history.unacked, flush.snap.usage)
    BY <1>1, <1>6 DEF Refused, Refuses, Keys
  <2>2. /\ ctx'.usage = ctx.usage \cup (flush.snap.usage \ badUsage)
        /\ ctx'.delta = ctx.delta /\ ctx'.lost = ctx.lost /\ DOMAIN ctx' = DOMAIN ctx
    BY <1>1, <1>6 DEF Keys
  <2>3. Orphans(badUsage)
    BY <1>1, <1>3, <1>6, <2>1, <2>2 DEF Orphans, FlushRaises, Stores
  <2>4. Keys'
    BY <1>1, <1>3, <1>6, <2>1, <2>2 DEF Keys, FlushRaises, NoFlush, EmptySnap
  <2> QED  BY <1>4, <2>3, <2>4 DEF Shape
<1> QED  BY <1>2, <1>5, <1>6 DEF rows

\* Every step has one of the shapes.
LEMMA StepHasShape == ASSUME BaseInv, Next PROVE Shape /\ Keys'
<1>1. ASSUME WriterFlush \/ FinalFlush \/ LateFlush PROVE Shape /\ Keys'
  <2>1. PICK by \in {"writer", "worker", "late"} : Begin(by)
    BY <1>1 DEF WriterFlush, FinalFlush, LateFlush
  <2> QED  BY <2>1, BeginShape
<1> QED  BY <1>1, ReporterSteps, QuietSteps, MarkShape, BatchShape, RowsShape, OrphansShape
         DEF Next, Write, Process

-----------------------------------------------------------------------------
(* The shapes keep the accounts *)

\* The counts of a usage are numbers.
LEMMA CountsAreNumbers ==
  ASSUME AccountsType, NEW u \in Usages
  PROVE  /\ job.cost[u] \in Nat /\ stored.usage[u] \in Nat
         /\ history.unacked[u] \in Nat /\ history.rejected[u] \in Nat
BY DEF AccountsType, Counts

\* A step that changes neither the books nor where a usage waits.
LEMMA StillKeeps == ASSUME AccountInv, Still, Keys' PROVE AccountInv'
<1> USE DEF AccountInv, BaseInv, Still, SameBooks, SameBuffer
<1>1. AccountsType' /\ FlushIdle'
  BY DEF AccountsType, FlushIdle, NoFlush, EmptySnap
<1>2. Fresh' /\ Apart' /\ LostIsLost' /\ Charged'
  BY DEF Fresh, Apart, LostIsLost, Charged
<1>3. UsageAccounted'
  BY DEF UsageAccounted, Incurred, Settled
<1>4. Billed'
  BY DEF Billed, Used, Count
<1>5. CostIsUsage'
  BY DEF CostIsUsage, Costed, Used, Count
<1> QED  BY <1>1, <1>2, <1>3, <1>4, <1>5

\* A usage enters the buffer, and the cost buffered for the job.
LEMMA RecordsKeeps ==
  ASSUME AccountInv, NEW u \in Usages, Records(u), Keys'
  PROVE  AccountInv'
<1> USE DEF AccountInv, BaseInv, Records, SameBooks
<1>1. AccountsType' /\ FlushIdle'
  BY DEF AccountsType, FlushIdle, NoFlush, EmptySnap
<1>2. /\ u \notin ctx.usage /\ u \notin flush.snap.usage
      /\ u \notin ctx.delta /\ u \notin flush.snap.delta
      /\ stored.usage[u] = 0 /\ history.rejected[u] = 0
  BY DEF Fresh
<1>3. Fresh' /\ Apart' /\ LostIsLost' /\ Charged'
  <2>1. \A x \in Usages : reporter'[x] = "none" => reporter[x] = "none" /\ x # u
    BY DEF AccountsType
  <2>2. Fresh'
    BY <2>1 DEF Fresh
  <2> QED  BY <1>2, <2>2 DEF Apart, LostIsLost, Charged
<1>4. UsageAccounted'
  BY DEF UsageAccounted, Incurred, Settled, AccountsType
<1>5. \A x \in Usages : x # u => Used(x)' = Used(x) /\ Costed(x)' = Costed(x)
  BY DEF Used, Costed, Count
<1>6. Used(u)' = 1 /\ Used(u) = 0
  BY <1>2 DEF Used, Count
<1>7. ~ctx.lost => Costed(u)' = Costed(u) + 1
  BY <1>2, CountsAreNumbers DEF Costed, Count
<1>8. Billed'
  BY <1>5, <1>6, CountsAreNumbers DEF Billed
<1>9. CostIsUsage'
  <2> SUFFICES ASSUME job.held, NEW x \in Usages
               PROVE  Used(x)' <= Costed(x)' /\ Costed(x)' <= Used(x)' + history.unacked[x]
    BY DEF CostIsUsage
  <2>1. Used(x) <= Costed(x) /\ Costed(x) <= Used(x) + history.unacked[x] /\ ~ctx.lost
    BY DEF CostIsUsage, LostIsLost
  <2>2. CASE x = u
    <3>1. Costed(u) \in Nat /\ history.unacked[u] \in Nat
      BY CountsAreNumbers DEF Costed, Count
    <3> QED  BY <1>6, <1>7, <2>1, <2>2, <3>1
  <2> QED  BY <1>5, <2>1, <2>2
<1> QED  BY <1>1, <1>3, <1>4, <1>8, <1>9

\* Losing the lease loses what was to be charged, not the usage.
LEMMA LosesKeeps == ASSUME AccountInv, Loses, Keys' PROVE AccountInv'
<1> USE DEF AccountInv, BaseInv, Loses, SameBooks
<1>1. AccountsType' /\ FlushIdle' /\ Fresh' /\ Apart' /\ LostIsLost' /\ Charged'
  BY DEF AccountsType, FlushIdle, Fresh, Apart, LostIsLost, Charged, NoFlush, EmptySnap
<1>2. UsageAccounted' /\ CostIsUsage'
  BY DEF UsageAccounted, Incurred, Settled, CostIsUsage
<1>3. Billed'
  BY DEF Billed, Used, Count
<1> QED  BY <1>1, <1>2, <1>3

\* The buffers go into a snapshot.
LEMMA TakesKeeps == ASSUME AccountInv, Takes, Keys' PROVE AccountInv'
<1> USE DEF AccountInv, BaseInv, Takes, SameBooks
<1>1. flush.snap.usage = {} /\ flush.snap.delta = {} /\ flush.stage # "orphans"
  BY DEF FlushIdle, NoFlush, EmptySnap
<1>2. AccountsType' /\ FlushIdle' /\ Fresh' /\ Apart' /\ LostIsLost' /\ Charged'
  BY <1>1 DEF AccountsType, FlushIdle, Fresh, Apart, LostIsLost, Charged
<1>3. UsageAccounted'
  BY <1>1 DEF UsageAccounted, Incurred, Settled
<1>4. \A u \in Usages : Used(u)' = Used(u)
  <2> SUFFICES ASSUME NEW u \in Usages PROVE Used(u)' = Used(u)
    OBVIOUS
  <2>1. /\ Count(u, ctx.usage)' = 0 /\ Count(u, flush.snap.usage)' = Count(u, ctx.usage)
        /\ Count(u, flush.snap.usage) = 0 /\ Count(u, ctx.usage) \in Nat
    BY <1>1 DEF Count
  <2> QED  BY <2>1, CountsAreNumbers DEF Used
<1>5. ~ctx.lost => \A u \in Usages : Costed(u)' = Costed(u)
  <2> SUFFICES ASSUME ~ctx.lost, NEW u \in Usages PROVE Costed(u)' = Costed(u)
    OBVIOUS
  <2>1. /\ Count(u, ctx.delta)' = 0 /\ Count(u, flush.snap.delta)' = Count(u, ctx.delta)
        /\ Count(u, flush.snap.delta) = 0 /\ Count(u, ctx.delta) \in Nat
    BY <1>1 DEF Count
  <2> QED  BY <2>1, CountsAreNumbers DEF Costed
<1>6. Billed'
  BY <1>4 DEF Billed
<1>7. CostIsUsage'
  BY <1>4, <1>5 DEF CostIsUsage, LostIsLost
<1> QED  BY <1>2, <1>3, <1>6, <1>7

\* The snapshot and the buffer become the usage to write without the lease.
LEMMA LosesInFlushKeeps == ASSUME AccountInv, LosesInFlush, Keys' PROVE AccountInv'
<1> USE DEF AccountInv, BaseInv, LosesInFlush, SameBooks
<1>1. AccountsType' /\ FlushIdle' /\ Fresh' /\ Apart' /\ LostIsLost' /\ Charged'
  BY DEF AccountsType, FlushIdle, Fresh, Apart, LostIsLost, Charged
<1>2. UsageAccounted' /\ CostIsUsage'
  BY DEF UsageAccounted, Incurred, Settled, CostIsUsage
<1>3. \A u \in Usages : Used(u)' = Used(u)
  <2> SUFFICES ASSUME NEW u \in Usages PROVE Used(u)' = Used(u)
    OBVIOUS
  <2>1. /\ Count(u, ctx.usage)' = 0
        /\ Count(u, flush.snap.usage)' = Count(u, ctx.usage) + Count(u, flush.snap.usage)
        /\ Count(u, flush.snap.usage) \in Nat /\ Count(u, ctx.usage) \in Nat
    BY DEF Count, Apart
  <2> QED  BY <2>1, CountsAreNumbers DEF Used
<1>4. Billed'
  BY <1>3 DEF Billed
<1> QED  BY <1>1, <1>2, <1>4

\* The arithmetic of a commit nobody heard of.
LEMMA UnheardSums ==
  ASSUME NEW used \in Nat, NEW costed \in Nat, NEW unacked \in Nat,
         NEW u \in Nat, NEW d \in Nat, NEW ud \in Nat, u <= d, d <= ud
  PROVE  /\ used <= 1 + unacked => used + u <= 1 + (unacked + ud)
         /\ (used <= costed /\ costed <= used + unacked) =>
              (used + u <= costed + d /\ costed + d <= (used + u) + (unacked + ud))
OBVIOUS

\* What a transaction adds to the counts of a usage.
LEMMA BooksPointwise ==
  ASSUME AccountsType, NEW u \in Usages
  PROVE  /\ Charges => job'.cost[u] = job.cost[u] + Count(u, flush.snap.delta)
         /\ \A bad : Stores(bad) =>
              stored'.usage[u] = stored.usage[u] + Count(u, flush.snap.usage \ bad)
         /\ \A bad : Refuses(bad) =>
              history'.rejected[u] = history.rejected[u] + Count(u, bad)
         /\ Unheard => history'.unacked[u] =
              history.unacked[u] + Count(u, flush.snap.usage \cup flush.snap.delta)
BY PlusCounts DEF AccountsType, Charges, Stores, Refuses, Unheard

\* A flush that committed: the snapshot is in the books.
LEMMA CommitsKeeps ==
  ASSUME AccountInv, NEW bad, Commits(bad), Keys'
  PROVE  AccountInv'
<1> USE DEF AccountInv, BaseInv, Commits, SameBuffer
<1>1. flush'.snap.usage = {} /\ flush'.snap.delta = {} /\ flush'.stage = "batch"
  BY DEF NoFlush, EmptySnap
<1>2. AccountsType'
  <2>1. job'.cost \in Counts /\ stored'.usage \in Counts /\ history'.rejected \in Counts
    BY PlusCounts DEF AccountsType, Charges, Stores, Refuses
  <2> QED  BY <1>1, <2>1 DEF AccountsType
<1>3. ASSUME NEW u \in Usages
      PROVE  /\ stored'.usage[u] + history'.rejected[u]
                  = stored.usage[u] + history.rejected[u] + Count(u, flush.snap.usage)
             /\ Used(u)' = Used(u) /\ Costed(u)' = Costed(u)
  <2>1. Count(u, flush.snap.usage \ bad) + Count(u, bad) = Count(u, flush.snap.usage)
    BY DEF Count
  <2>2. /\ Count(u, flush.snap.usage \ bad) \in Nat /\ Count(u, bad) \in Nat
        /\ Count(u, flush.snap.usage) \in Nat /\ Count(u, flush.snap.delta) \in Nat
        /\ Count(u, ctx.usage) \in Nat /\ Count(u, ctx.delta) \in Nat
    BY DEF Count
  <2>3. /\ stored'.usage[u] = stored.usage[u] + Count(u, flush.snap.usage \ bad)
        /\ history'.rejected[u] = history.rejected[u] + Count(u, bad)
        /\ job'.cost[u] = job.cost[u] + Count(u, flush.snap.delta)
    BY BooksPointwise
  <2>4. /\ Count(u, flush.snap.usage)' = 0 /\ Count(u, flush.snap.delta)' = 0
        /\ Count(u, ctx.usage)' = Count(u, ctx.usage) /\ Count(u, ctx.delta)' = Count(u, ctx.delta)
    BY <1>1 DEF Count
  <2>5. /\ stored'.usage[u] + history'.rejected[u]
             = stored.usage[u] + history.rejected[u] + Count(u, flush.snap.usage)
    BY <2>1, <2>2, <2>3, CountsAreNumbers
  <2> QED  BY <2>2, <2>3, <2>4, <2>5, CountsAreNumbers DEF Used, Costed
<1>4. Fresh'
  <2> SUFFICES ASSUME NEW u \in Usages, reporter[u] = "none"
               PROVE  stored'.usage[u] = 0 /\ history'.rejected[u] = 0
    BY <1>1 DEF Fresh
  <2>1. u \notin flush.snap.usage /\ stored.usage[u] = 0 /\ history.rejected[u] = 0
    BY DEF Fresh
  <2> QED  BY <2>1, BooksPointwise DEF Count
<1>5. FlushIdle' /\ Apart' /\ LostIsLost' /\ Charged'
  BY <1>1 DEF FlushIdle, Apart, LostIsLost, Charged
<1>6. UsageAccounted'
  <2> SUFFICES ASSUME NEW u \in Usages, reporter[u] # "none", u \notin ctx.usage
               PROVE  stored'.usage[u] + history'.rejected[u] > 0
    BY DEF UsageAccounted, Incurred, Settled
  <2>1. u \in flush.snap.usage \/ stored.usage[u] + history.rejected[u] > 0
    BY DEF UsageAccounted, Incurred, Settled
  <2>2. Count(u, flush.snap.usage) \in Nat /\ (u \in flush.snap.usage => Count(u, flush.snap.usage) = 1)
    BY DEF Count
  <2> QED  BY <1>3, <2>1, <2>2, CountsAreNumbers
<1>7. Billed' /\ CostIsUsage'
  BY <1>3 DEF Billed, CostIsUsage
<1> QED  BY <1>2, <1>4, <1>5, <1>6, <1>7

\* A transaction that failed, or whose commit nobody heard of; the flush
\* tries again with the same snapshot.
LEMMA KeepsSnapKeeps == ASSUME AccountInv, KeepsSnap, Keys' PROVE AccountInv'
<1> USE DEF AccountInv, BaseInv, KeepsSnap, SameBuffer
<1>1. AccountsType'
  <2>1. job'.cost \in Counts /\ stored'.usage \in Counts /\ history'.unacked \in Counts
    BY PlusCounts DEF AccountsType, Unheard, Charges, Stores, SameBooks
  <2> QED  BY <2>1 DEF AccountsType
<1>2. FlushIdle' /\ Apart' /\ LostIsLost' /\ Charged'
  BY DEF FlushIdle, Apart, LostIsLost, Charged
<1>3. CASE SameBooks
  <2>1. Fresh' /\ UsageAccounted'
    BY <1>3 DEF Fresh, UsageAccounted, Incurred, Settled, SameBooks
  <2>2. Billed' /\ CostIsUsage'
    BY <1>3 DEF Billed, CostIsUsage, Used, Costed, Count, SameBooks
  <2> QED  BY <1>1, <1>2, <2>1, <2>2
<1>4. CASE Unheard /\ Stores({})
  <2>1. ASSUME NEW u \in Usages
        PROVE  /\ stored'.usage[u] = stored.usage[u] + Count(u, flush.snap.usage)
               /\ job'.cost[u] = job.cost[u] + Count(u, flush.snap.delta)
               /\ history'.unacked[u] =
                    history.unacked[u] + Count(u, flush.snap.usage \cup flush.snap.delta)
    <3>1. Count(u, flush.snap.usage \ {}) = Count(u, flush.snap.usage)
      BY DEF Count
    <3>2. stored'.usage[u] = stored.usage[u] + Count(u, flush.snap.usage \ {})
      BY <1>4, BooksPointwise
    <3>3. /\ job'.cost[u] = job.cost[u] + Count(u, flush.snap.delta)
          /\ history'.unacked[u] =
               history.unacked[u] + Count(u, flush.snap.usage \cup flush.snap.delta)
      BY <1>4, BooksPointwise DEF Unheard
    <3> QED  BY <3>1, <3>2, <3>3
  <2>2. ASSUME NEW u \in Usages
        PROVE  /\ Used(u)' = Used(u) + Count(u, flush.snap.usage)
               /\ Costed(u)' = Costed(u) + Count(u, flush.snap.delta)
               /\ Used(u) \in Nat /\ Costed(u) \in Nat
    <3>1. /\ Count(u, flush.snap.usage)' = Count(u, flush.snap.usage)
          /\ Count(u, flush.snap.delta)' = Count(u, flush.snap.delta)
          /\ Count(u, ctx.usage)' = Count(u, ctx.usage) /\ Count(u, ctx.delta)' = Count(u, ctx.delta)
          /\ Count(u, flush.snap.usage) \in Nat /\ Count(u, flush.snap.delta) \in Nat
          /\ Count(u, ctx.usage) \in Nat /\ Count(u, ctx.delta) \in Nat
      BY DEF Count
    <3> QED  BY <2>1, <3>1, CountsAreNumbers DEF Used, Costed
  <2>3. Fresh'
    <3> SUFFICES ASSUME NEW u \in Usages, reporter[u] = "none" PROVE stored'.usage[u] = 0
      BY DEF Fresh
    <3>1. u \notin flush.snap.usage /\ stored.usage[u] = 0
      BY DEF Fresh
    <3> QED  BY <2>1, <3>1 DEF Count
  <2>4. UsageAccounted'
    <3> SUFFICES ASSUME NEW u \in Usages, reporter[u] # "none",
                        u \notin ctx.usage \cup flush.snap.usage
                 PROVE  stored'.usage[u] + history'.rejected[u] > 0
      BY DEF UsageAccounted, Incurred, Settled
    <3>1. stored.usage[u] + history.rejected[u] > 0
      BY DEF UsageAccounted, Incurred, Settled
    <3> QED  BY <2>1, <3>1, CountsAreNumbers DEF Count
  <2>5. ASSUME NEW u \in Usages
        PROVE  /\ Count(u, flush.snap.usage) <= Count(u, flush.snap.delta)
               /\ Count(u, flush.snap.delta) <= Count(u, flush.snap.usage \cup flush.snap.delta)
               /\ Count(u, flush.snap.usage) <= Count(u, flush.snap.usage \cup flush.snap.delta)
               /\ Count(u, flush.snap.usage) \in Nat /\ Count(u, flush.snap.delta) \in Nat
               /\ Count(u, flush.snap.usage \cup flush.snap.delta) \in Nat
    BY DEF Count, Charged
  <2>6. ASSUME NEW u \in Usages
        PROVE  /\ Used(u)' <= 1 + history'.unacked[u]
               /\ job.held => Used(u)' <= Costed(u)' /\ Costed(u)' <= Used(u)' + history'.unacked[u]
    <3> DEFINE cu == Count(u, flush.snap.usage)
               cd == Count(u, flush.snap.delta)
               cud == Count(u, flush.snap.usage \cup flush.snap.delta)
               used == Used(u)
               costed == Costed(u)
               unacked == history.unacked[u]
    <3>1. /\ cu \in Nat /\ cd \in Nat /\ cud \in Nat /\ cu <= cd /\ cd <= cud
          /\ used \in Nat /\ costed \in Nat /\ unacked \in Nat
      BY <2>2, <2>5, CountsAreNumbers
    <3>2. Used(u)' = used + cu /\ Costed(u)' = costed + cd /\ history'.unacked[u] = unacked + cud
      BY <2>1, <2>2
    <3>3. used <= 1 + unacked /\ (job.held => used <= costed /\ costed <= used + unacked)
      BY DEF Billed, CostIsUsage
    <3> HIDE DEF cu, cd, cud, used, costed, unacked
    <3>4. /\ used + cu <= 1 + (unacked + cud)
          /\ job.held => used + cu <= costed + cd /\ costed + cd <= (used + cu) + (unacked + cud)
      BY <3>1, <3>3, UnheardSums
    <3> QED  BY <3>2, <3>4
  <2>7. Billed' /\ CostIsUsage'
    BY <2>6 DEF Billed, CostIsUsage
  <2> QED  BY <1>1, <1>2, <2>3, <2>4, <2>7
<1> QED  BY <1>3, <1>4

\* What the snapshot and the buffer count together when the rows the
\* database refused leave the snapshot and the rest returns to the buffer.
LEMMA ReturnCounts ==
  ASSUME AccountInv, NEW u \in Usages, NEW bad, bad \subseteq flush.snap.usage,
         flush' = NoFlush, ctx'.usage = ctx.usage \cup (flush.snap.usage \ bad)
  PROVE  /\ Count(u, ctx.usage)' + Count(u, bad)
              = Count(u, ctx.usage) + Count(u, flush.snap.usage)
         /\ Count(u, flush.snap.usage)' = 0 /\ Count(u, flush.snap.delta)' = 0
         /\ Count(u, flush.snap.usage \ bad) + Count(u, bad) = Count(u, flush.snap.usage)
BY DEF AccountInv, BaseInv, Apart, Count, NoFlush, EmptySnap

\* A flush under the lease that failed gives back what was not refused; the
\* database may have it all the same.
LEMMA GivesBackKeeps ==
  ASSUME AccountInv, NEW bad, GivesBack(bad), Keys'
  PROVE  AccountInv'
<1> USE DEF AccountInv, BaseInv, GivesBack
<1>1. /\ flush'.snap.usage = {} /\ flush'.snap.delta = {} /\ flush'.stage = "batch"
      /\ ~ctx.lost /\ ctx'.delta = ctx.delta \cup flush.snap.delta
  BY DEF NoFlush, EmptySnap, LostIsLost
<1>2. AccountsType'
  <2>1. /\ job'.cost \in Counts /\ stored'.usage \in Counts
        /\ history'.unacked \in Counts /\ history'.rejected \in Counts
    BY PlusCounts DEF AccountsType, Unheard, Charges, Stores, Refuses
  <2> QED  BY <1>1, <2>1 DEF AccountsType
<1>3. FlushIdle' /\ Apart' /\ LostIsLost' /\ Charged'
  BY <1>1 DEF FlushIdle, Apart, LostIsLost, Charged
<1>4. ASSUME NEW u \in Usages
      PROVE  history'.rejected[u] = history.rejected[u] + Count(u, bad)
  BY BooksPointwise
<1>5. ASSUME NEW u \in Usages
      PROVE  /\ stored'.usage[u] = stored.usage[u]
                \/ stored'.usage[u] = stored.usage[u] + Count(u, flush.snap.usage \ bad)
             /\ stored'.usage[u] \in Nat /\ stored'.usage[u] >= stored.usage[u]
  <2>1. Count(u, flush.snap.usage \ bad) \in Nat
    BY DEF Count
  <2>2. \/ stored'.usage[u] = stored.usage[u]
        \/ stored'.usage[u] = stored.usage[u] + Count(u, flush.snap.usage \ bad)
    BY BooksPointwise
  <2> QED  BY <2>1, <2>2, CountsAreNumbers
<1>6. Fresh'
  <2> SUFFICES ASSUME NEW u \in Usages, reporter[u] = "none"
               PROVE  /\ u \notin ctx'.usage /\ u \notin ctx'.delta
                      /\ stored'.usage[u] = 0 /\ history'.rejected[u] = 0
    BY <1>1 DEF Fresh
  <2>1. /\ u \notin ctx.usage /\ u \notin flush.snap.usage
        /\ u \notin ctx.delta /\ u \notin flush.snap.delta
        /\ stored.usage[u] = 0 /\ history.rejected[u] = 0
    BY DEF Fresh
  <2> QED  BY <1>1, <1>4, <1>5, <2>1 DEF Count
<1>7. UsageAccounted'
  <2> SUFFICES ASSUME NEW u \in Usages, reporter[u] # "none", u \notin ctx'.usage
               PROVE  stored'.usage[u] + history'.rejected[u] > 0
    BY DEF UsageAccounted, Incurred, Settled
  <2>1. u \in bad \/ stored.usage[u] + history.rejected[u] > 0
    BY DEF UsageAccounted, Incurred, Settled
  <2>2. Count(u, bad) \in Nat /\ (u \in bad => Count(u, bad) = 1)
    BY DEF Count
  <2> QED  BY <1>4, <1>5, <2>1, <2>2, CountsAreNumbers
<1>8. ASSUME NEW u \in Usages
      PROVE  /\ Used(u)' <= 1 + history'.unacked[u]
             /\ job.held => Used(u)' <= Costed(u)' /\ Costed(u)' <= Used(u)' + history'.unacked[u]
  <2> DEFINE cu == Count(u, flush.snap.usage \ bad)
             cd == Count(u, flush.snap.delta)
             cud == Count(u, flush.snap.usage \cup flush.snap.delta)
             used == Used(u)
             costed == Costed(u)
             unacked == history.unacked[u]
  <2>1. /\ cu \in Nat /\ cd \in Nat /\ cud \in Nat /\ cu <= cd /\ cd <= cud
    BY DEF Count, Charged
  <2>2. used \in Nat /\ costed \in Nat /\ unacked \in Nat
    BY CountsAreNumbers DEF Used, Costed, Count
  <2>3. used <= 1 + unacked /\ (job.held => used <= costed /\ costed <= used + unacked)
    BY DEF Billed, CostIsUsage
  <2>4. /\ Count(u, ctx.usage)' + Count(u, bad)
              = Count(u, ctx.usage) + Count(u, flush.snap.usage)
        /\ Count(u, flush.snap.usage)' = 0 /\ Count(u, flush.snap.delta)' = 0
    BY ReturnCounts
  <2>5. /\ Count(u, ctx.delta)' = Count(u, ctx.delta) + cd
        /\ Count(u, ctx.usage)' \in Nat /\ Count(u, bad) \in Nat /\ Count(u, ctx.usage) \in Nat
        /\ Count(u, flush.snap.usage) \in Nat /\ Count(u, ctx.delta) \in Nat
    BY <1>1 DEF Count, Apart
  <2>6. CASE /\ job'.cost = job.cost /\ stored'.usage = stored.usage
             /\ history'.unacked = history.unacked
    <3>1. Used(u)' = used
      BY <1>4, <2>4, <2>5, <2>6, CountsAreNumbers DEF Used
    <3>2. Costed(u)' = costed
      BY <2>1, <2>4, <2>5, <2>6, CountsAreNumbers DEF Costed
    <3> QED  BY <2>3, <2>6, <3>1, <3>2
  <2>7. CASE Unheard /\ Stores(bad)
    <3>1. stored'.usage[u] = stored.usage[u] + cu
      BY <2>7, BooksPointwise
    <3>2. job'.cost[u] = job.cost[u] + cd /\ history'.unacked[u] = unacked + cud
      BY <2>7, BooksPointwise DEF Unheard
    <3>3. Used(u)' = used + cu
      BY <1>4, <2>1, <2>4, <2>5, <3>1, CountsAreNumbers DEF Used
    <3>4. Costed(u)' = costed + cd
      BY <2>1, <2>4, <2>5, <3>2, CountsAreNumbers DEF Costed
    <3> HIDE DEF cu, cd, cud, used, costed, unacked
    <3>5. /\ used + cu <= 1 + (unacked + cud)
          /\ job.held => used + cu <= costed + cd /\ costed + cd <= (used + cu) + (unacked + cud)
      BY <2>1, <2>2, <2>3, UnheardSums
    <3> QED  BY <3>2, <3>3, <3>4, <3>5
  <2> QED  BY <2>6, <2>7
<1>9. Billed' /\ CostIsUsage'
  BY <1>8 DEF Billed, CostIsUsage
<1> QED  BY <1>2, <1>3, <1>6, <1>7, <1>9

\* The write of a lost job's usage, whatever the database and the
\* connection make of it.
LEMMA OrphansKeeps ==
  ASSUME AccountInv, NEW bad, Orphans(bad), Keys'
  PROVE  AccountInv'
<1> USE DEF AccountInv, BaseInv, Orphans
<1>1. /\ flush'.snap.usage = {} /\ flush'.snap.delta = {} /\ flush'.stage = "batch"
      /\ ~job.held
  BY DEF NoFlush, EmptySnap, LostIsLost
<1>2. AccountsType'
  <2>1. /\ stored'.usage \in Counts
        /\ history'.unacked \in Counts /\ history'.rejected \in Counts
    BY PlusCounts DEF AccountsType, Stores, Refuses
  <2> QED  BY <1>1, <2>1 DEF AccountsType
<1>3. FlushIdle' /\ Apart' /\ LostIsLost' /\ Charged' /\ CostIsUsage'
  BY <1>1 DEF FlushIdle, Apart, LostIsLost, Charged, CostIsUsage
<1>4. ASSUME NEW u \in Usages
      PROVE  history'.rejected[u] = history.rejected[u] + Count(u, bad)
  BY BooksPointwise
<1>5. ASSUME NEW u \in Usages
      PROVE  /\ stored'.usage[u] = stored.usage[u]
                \/ stored'.usage[u] = stored.usage[u] + Count(u, flush.snap.usage \ bad)
             /\ stored'.usage[u] \in Nat /\ stored'.usage[u] >= stored.usage[u]
  <2>1. Count(u, flush.snap.usage \ bad) \in Nat
    BY DEF Count
  <2>2. \/ stored'.usage[u] = stored.usage[u]
        \/ stored'.usage[u] = stored.usage[u] + Count(u, flush.snap.usage \ bad)
    BY BooksPointwise
  <2> QED  BY <2>1, <2>2, CountsAreNumbers
<1>6. Fresh'
  <2> SUFFICES ASSUME NEW u \in Usages, reporter[u] = "none"
               PROVE  /\ u \notin ctx'.usage /\ u \notin ctx'.delta
                      /\ stored'.usage[u] = 0 /\ history'.rejected[u] = 0
    BY <1>1 DEF Fresh
  <2>1. /\ u \notin ctx.usage /\ u \notin flush.snap.usage /\ u \notin ctx.delta
        /\ stored.usage[u] = 0 /\ history.rejected[u] = 0
    BY DEF Fresh
  <2> QED  BY <1>1, <1>4, <1>5, <2>1 DEF Count
<1>7. UsageAccounted'
  <2> SUFFICES ASSUME NEW u \in Usages, reporter[u] # "none", u \notin ctx'.usage
               PROVE  stored'.usage[u] + history'.rejected[u] > 0
    BY DEF UsageAccounted, Incurred, Settled
  <2>1. u \in flush.snap.usage \/ stored.usage[u] + history.rejected[u] > 0
    BY DEF UsageAccounted, Incurred, Settled
  <2>2. /\ Count(u, bad) \in Nat /\ (u \in bad => Count(u, bad) = 1)
        /\ u \in flush.snap.usage \ bad => Count(u, flush.snap.usage \ bad) = 1
    BY DEF Count
  <2>3. CASE u \in flush.snap.usage \ bad
    <3>1. Stores(bad)
      BY <2>3
    <3>2. stored'.usage[u] = stored.usage[u] + Count(u, flush.snap.usage \ bad)
      BY <3>1, BooksPointwise
    <3> QED  BY <1>4, <2>2, <2>3, <3>2, CountsAreNumbers
  <2>4. CASE u \notin flush.snap.usage \ bad
    BY <1>4, <1>5, <2>1, <2>2, <2>4, CountsAreNumbers
  <2> QED  BY <2>3, <2>4
<1>8. Billed'
  <2> SUFFICES ASSUME NEW u \in Usages PROVE Used(u)' <= 1 + history'.unacked[u]
    BY DEF Billed
  <2>1. /\ Used(u) <= 1 + history.unacked[u]
        /\ Used(u) \in Nat /\ history.unacked[u] \in Nat
    BY CountsAreNumbers DEF Billed, Used, Count
  <2>2. /\ Count(u, ctx.usage) \in Nat /\ Count(u, bad) \in Nat /\ Count(u, flush.snap.usage) \in Nat
        /\ Count(u, flush.snap.usage \ bad) \in Nat /\ Count(u, ctx'.usage) \in Nat
        /\ Count(u, ctx.usage)' = Count(u, ctx'.usage)
        /\ Count(u, flush.snap.usage \ bad) + Count(u, bad) = Count(u, flush.snap.usage)
        /\ Count(u, flush.snap.usage)' = 0
        /\ Count(u, flush.snap.usage \ bad) <= Count(u, flush.snap.usage)
    BY <1>1 DEF Count
  <2>3. CASE ctx'.usage = ctx.usage /\ Stores(bad) /\ history'.unacked = history.unacked
    <3>1. stored'.usage[u] = stored.usage[u] + Count(u, flush.snap.usage \ bad)
      BY <2>3, BooksPointwise
    <3>2. Used(u)' = Used(u)
      BY <1>4, <2>2, <2>3, <3>1, CountsAreNumbers DEF Used
    <3> QED  BY <2>1, <2>3, <3>2
  <2>4. CASE ctx'.usage = ctx.usage \cup (flush.snap.usage \ bad)
    <3>1. Count(u, ctx.usage)' + Count(u, bad) = Count(u, ctx.usage) + Count(u, flush.snap.usage)
      BY <2>4, ReturnCounts
    <3>2. CASE stored'.usage = stored.usage /\ history'.unacked = history.unacked
      <4>1. Used(u)' = Used(u)
        BY <1>4, <2>2, <3>1, <3>2, CountsAreNumbers DEF Used
      <4> QED  BY <2>1, <3>2, <4>1
    <3>3. CASE Stores(bad) /\ history'.unacked = Plus(history.unacked, flush.snap.usage)
      <4> DEFINE c == Count(u, flush.snap.usage \ bad)
                 d == Count(u, flush.snap.usage)
                 k == history.unacked[u]
      <4>1. stored'.usage[u] = stored.usage[u] + c
        BY <3>3, BooksPointwise
      <4>2. history'.unacked[u] = k + d
        BY <3>3, PlusCounts DEF AccountsType
      <4>3. Used(u)' = Used(u) + c
        BY <1>4, <2>2, <3>1, <4>1, CountsAreNumbers DEF Used
      <4>4. c \in Nat /\ d \in Nat /\ c <= d /\ Used(u) <= 1 + k /\ Used(u) \in Nat /\ k \in Nat
        BY <2>1, <2>2
      <4> HIDE DEF c, d, k
      <4>5. Used(u) + c <= 1 + (k + d)
        BY <4>4
      <4> QED  BY <4>2, <4>3, <4>5
    <3> QED  BY <2>4, <3>2, <3>3, <2>3
  <2> QED  BY <2>3, <2>4
<1> QED  BY <1>2, <1>3, <1>6, <1>7, <1>8

-----------------------------------------------------------------------------
(* The theorems *)

\* The accounts of a job are right at its start and after every step.
LEMMA AccountInit == ASSUME Init PROVE AccountInv
<1>1. Keys /\ AccountsType /\ FlushIdle
  BY DEF Init, Keys, AccountsType, FlushIdle, NoFlush, EmptySnap, None, Counts
<1>2. Fresh /\ Apart /\ LostIsLost /\ Charged
  BY DEF Init, Fresh, Apart, LostIsLost, Charged, NoFlush, EmptySnap, None
<1>3. UsageAccounted /\ Billed /\ CostIsUsage
  BY DEF Init, UsageAccounted, Incurred, Billed, CostIsUsage, Used, Costed, Count, NoFlush,
         EmptySnap, None
<1> QED  BY <1>1, <1>2, <1>3 DEF AccountInv, BaseInv

\* Every step keeps AccountInv.
LEMMA AccountStep == ASSUME AccountInv, [Next]_vars PROVE AccountInv'
<1>1. CASE Next
  <2>1. Shape /\ Keys'
    BY <1>1, StepHasShape DEF AccountInv
  <2> QED  BY <2>1, StillKeeps, LosesKeeps, TakesKeeps, LosesInFlushKeeps, KeepsSnapKeeps,
              RecordsKeeps, CommitsKeeps, GivesBackKeeps, OrphansKeeps DEF Shape
<1>2. CASE UNCHANGED vars
  BY <1>2 DEF vars, AccountInv, BaseInv, Keys, AccountsType, FlushIdle, Fresh, Apart, LostIsLost,
         Charged, UsageAccounted, Incurred, Settled, Billed, CostIsUsage, Used, Costed, Count
<1> QED  BY <1>1, <1>2

\* The inductive invariant of the accounts holds in every reachable state.
THEOREM AccountsKept == Spec => []AccountInv
<1>1. Init => AccountInv
  BY AccountInit
<1>2. AccountInv /\ [Next]_vars => AccountInv'
  BY AccountStep
<1> QED  BY <1>1, <1>2, PTL DEF Spec

\* A usage that was incurred is in the buffer, in a flush, stored or refused,
\* for all usages, threads and bounds: a lost lease, a failed transaction or
\* a late thread never makes it disappear.
THEOREM UsagesAccounted == Spec => []UsageAccounted
<1>1. AccountInv => UsageAccounted
  BY DEF AccountInv
<1> QED  BY <1>1, AccountsKept, PTL

\* A usage is billed once, but for the commits nobody heard of.
THEOREM UsagesBilledOnce == Spec => []BilledOnce
<1>1. ASSUME AccountInv PROVE BilledOnce
  <2> SUFFICES ASSUME NEW u \in Usages
               PROVE  stored.usage[u] + history.rejected[u] <= 1 + history.unacked[u]
    BY DEF BilledOnce
  <2>1. Count(u, ctx.usage) \in Nat /\ Count(u, flush.snap.usage) \in Nat
    BY DEF Count
  <2> QED  BY <1>1, <2>1, CountsAreNumbers DEF AccountInv, BaseInv, Billed, Used
<1> QED  BY <1>1, AccountsKept, PTL

\* The cost of a job that is ours follows its usage, whichever batches failed.
THEOREM CostsFollowUsage == Spec => []CostIsUsage
<1>1. AccountInv => CostIsUsage
  BY DEF AccountInv
<1> QED  BY <1>1, AccountsKept, PTL

-----------------------------------------------------------------------------
(* Sequences of event numbers *)

Rising(s) == \A i, k \in DOMAIN s : i < k => s[i] < s[k]

\* t has some of the elements of s, in order.
Part(t, s) == Rising(t) /\ \A k \in DOMAIN t : \E i \in DOMAIN s : t[k] = s[i]

\* If d shows something later than e, it showed e before that.
Shown(d, e) == \A i \in DOMAIN d : d[i] > e => \E x \in 1..(i - 1) : d[x] = e

\* The buffer b, the snapshot s and the stored events d, before event n.
Ordered(b, s, d, n) ==
  /\ Rising(b) /\ Rising(s)
  /\ \A i \in DOMAIN s, k \in DOMAIN b : s[i] < b[k]
  /\ \A i \in DOMAIN b : b[i] < n /\ Shown(d, b[i])
  /\ \A i \in DOMAIN s : s[i] < n /\ Shown(d, s[i])
  /\ \A i \in DOMAIN d : d[i] < n

\* EventsInOrder, of any sequence.
InOrder(d) ==
  \A i, k \in DOMAIN d : i < k /\ d[i] > d[k] => \E e \in 1..(i - 1) : d[e] = d[k]

\* What is left of a sequence without the place i.
LEMMA WithoutPlace ==
  ASSUME NEW S, NEW s \in Seq(S), NEW i \in DOMAIN s
  PROVE  /\ RemoveAt(s, i) \in Seq(S) /\ Len(RemoveAt(s, i)) = Len(s) - 1
         /\ \A k \in DOMAIN RemoveAt(s, i) : RemoveAt(s, i)[k] = s[IF k < i THEN k ELSE k + 1]
<1>1. DOMAIN s = 1..Len(s) /\ Len(s) \in Nat /\ i \in 1..Len(s)
  OBVIOUS
<1> DEFINE before == SubSeq(s, 1, i - 1)
           after == SubSeq(s, i + 1, Len(s))
<1>2. before \in Seq(S) /\ Len(before) = i - 1 /\ \A k \in 1..(i - 1) : before[k] = s[k]
  BY <1>1
<1>3. /\ after \in Seq(S) /\ Len(after) = Len(s) - i
      /\ \A k \in 1..(Len(s) - i) : after[k] = s[k + i]
  BY <1>1
<1>4. RemoveAt(s, i) = before \o after
  BY DEF RemoveAt
<1> HIDE DEF before, after
<1> DEFINE r == RemoveAt(s, i)
<1>5. /\ r \in Seq(S) /\ Len(r) = Len(before) + Len(after)
      /\ \A k \in 1..(Len(before) + Len(after)) :
           r[k] = IF k <= Len(before) THEN before[k] ELSE after[k - Len(before)]
  <2>1. /\ before \o after \in Seq(S) /\ Len(before \o after) = Len(before) + Len(after)
        /\ \A k \in 1..(Len(before) + Len(after)) :
             (before \o after)[k] = IF k <= Len(before) THEN before[k] ELSE after[k - Len(before)]
    BY <1>2, <1>3, ConcatProperties
  <2> QED BY <2>1, <1>4
<1> HIDE DEF r
<1>6. DOMAIN r = 1..(Len(s) - 1)
  BY <1>1, <1>2, <1>3, <1>5
<1>7. ASSUME NEW k \in 1..(Len(s) - 1)
      PROVE  r[k] = s[IF k < i THEN k ELSE k + 1]
  <2>1. CASE k < i
    <3>1. k \in 1..(i - 1) /\ k \in 1..(Len(before) + Len(after)) /\ k <= Len(before)
      BY <2>1, <1>1, <1>2, <1>3
    <3>2. r[k] = before[k]
      BY <1>5, <3>1
    <3> QED BY <2>1, <3>1, <3>2, <1>2
  <2>2. CASE ~(k < i)
    <3>1. k - (i - 1) \in 1..(Len(s) - i) /\ (k - (i - 1)) + i = k + 1
      BY <2>2, <1>1
    <3>2. k \in 1..(Len(before) + Len(after)) /\ ~(k <= Len(before))
      BY <2>2, <1>1, <1>2, <1>3
    <3>3. r[k] = after[k - (i - 1)]
      BY <1>5, <3>2, <1>2
    <3> QED BY <2>2, <3>1, <3>3, <1>3
  <2> QED BY <2>1, <2>2
<1>8. Len(r) = Len(s) - 1
  BY <1>1, <1>2, <1>3, <1>5
<1> QED BY <1>5, <1>6, <1>7, <1>8 DEF r

\* A place or the head may go, or any rows that are refused, and the rest is
\* a part of the sequence.
LEMMA Parts ==
  ASSUME NEW s \in Seq(Nat), Rising(s)
  PROVE  /\ Part(s, s) /\ Part(<<>>, s)
         /\ s # <<>> => Part(Tail(s), s)
         /\ \A i \in DOMAIN s : Part(RemoveAt(s, i), s)
         /\ \A r \in Remainders(s) : Part(r, s)
         /\ \A k \in 0..Len(s) : Part(SubSeq(s, k + 1, Len(s)), s)
<1>1. Part(s, s) /\ Part(<<>>, s)
  BY DEF Part, Rising
<1>2. ASSUME NEW k \in 0..Len(s) PROVE Part(SubSeq(s, k + 1, Len(s)), s)
  <2> DEFINE t == SubSeq(s, k + 1, Len(s))
  <2>4. k \in Nat /\ k <= Len(s) /\ Len(s) \in Nat /\ DOMAIN s = 1..Len(s)
    OBVIOUS
  <2>5. Len(t) = Len(s) - k /\ \A j \in 1..(Len(s) - k) : t[j] = s[j + k]
    <3>1. /\ k + 1 \in Int /\ Len(s) \in Int /\ \A j \in (k + 1)..Len(s) : s[j] \in Nat
      BY <2>4
    <3>2. /\ Len(t) = IF k + 1 <= Len(s) THEN Len(s) - (k + 1) + 1 ELSE 0
          /\ \A j \in 1..(Len(s) - (k + 1) + 1) : t[j] = s[(k + 1) + j - 1]
      BY <3>1, SubSeqProperties
    <3> HIDE DEF t
    <3>3. \A j \in 1..(Len(s) - k) : (k + 1) + j - 1 = j + k /\ j \in 1..(Len(s) - (k + 1) + 1)
      BY <2>4
    <3>4. Len(t) = Len(s) - k
      <4> DEFINE n == Len(s)
      <4>1. n \in Nat /\ k \in Nat /\ k <= n
        BY <2>4
      <4> HIDE DEF n
      <4>2. CASE k + 1 <= n
        <5>1. Len(t) = n - (k + 1) + 1
          BY <3>2, <4>2 DEF n
        <5> QED BY <4>1, <5>1 DEF n
      <4>3. CASE ~(k + 1 <= n)
        <5>1. Len(t) = 0 /\ n - k = 0
          BY <3>2, <4>1, <4>3 DEF n
        <5> QED BY <5>1 DEF n
      <4> QED BY <4>2, <4>3
    <3>5. ASSUME NEW j \in 1..(Len(s) - k) PROVE t[j] = s[j + k]
      <4>1. (k + 1) + j - 1 = j + k /\ j \in 1..(Len(s) - (k + 1) + 1)
        BY <3>3
      <4>2. t[j] = s[(k + 1) + j - 1]
        BY <3>2, <4>1
      <4> QED BY <4>1, <4>2
    <3> QED BY <3>4, <3>5
  <2>6. t \in Seq(Nat)
    BY <2>4
  <2>1. /\ DOMAIN t = 1..(Len(s) - k) /\ DOMAIN s = 1..Len(s) /\ Len(s) \in Nat
        /\ \A j \in DOMAIN t : t[j] = s[j + k]
    <3> HIDE DEF t
    <3> QED BY <2>4, <2>5, <2>6
  <2> HIDE DEF t
  <2>2. \A j \in DOMAIN t : j + k \in DOMAIN s
    BY <2>1
  <2>3. Rising(t)
    BY <2>1, <2>2 DEF Rising
  <2> QED BY <2>1, <2>2, <2>3 DEF Part, t
<1>3. ASSUME s # <<>> PROVE Part(Tail(s), s)
  <2>1. /\ Len(s) \in Nat \ {0} /\ DOMAIN Tail(s) = 1..(Len(s) - 1) /\ DOMAIN s = 1..Len(s)
        /\ \A j \in 1..(Len(s) - 1) : Tail(s)[j] = s[j + 1]
    BY <1>3
  <2>2. \A j \in DOMAIN Tail(s) : j + 1 \in DOMAIN s
    BY <2>1
  <2>3. Rising(Tail(s))
    BY <2>1, <2>2 DEF Rising
  <2> QED BY <2>1, <2>2, <2>3 DEF Part
<1>4. ASSUME NEW i \in DOMAIN s PROVE Part(RemoveAt(s, i), s)
  <2> DEFINE r == RemoveAt(s, i)
  <2>1. /\ r \in Seq(Nat) /\ Len(r) = Len(s) - 1
        /\ \A k \in DOMAIN r : r[k] = s[IF k < i THEN k ELSE k + 1]
    BY WithoutPlace
  <2> HIDE DEF r
  <2>2. /\ DOMAIN r = 1..(Len(s) - 1) /\ DOMAIN s = 1..Len(s) /\ Len(s) \in Nat
        /\ \A k \in DOMAIN r : (IF k < i THEN k ELSE k + 1) \in DOMAIN s
    BY SMTT(30), <2>1
  <2>3. \A j, k \in DOMAIN r : j < k => (IF j < i THEN j ELSE j + 1) < (IF k < i THEN k ELSE k + 1)
    BY <2>2
  <2>4. Rising(r)
    BY <2>1, <2>2, <2>3 DEF Rising
  <2> QED BY <2>1, <2>2, <2>4 DEF Part, r
<1>5. ASSUME NEW r \in Remainders(s) PROVE Part(r, s)
  <2>1. PICK n \in 0..Len(s) : \E f \in Places(n, s) : r = [i \in 1..n |-> s[f[i]]]
    BY <1>5 DEF Remainders
  <2>5. PICK f \in Places(n, s) : r = [i \in 1..n |-> s[f[i]]]
    BY <2>1
  <2>2. f \in [1..n -> DOMAIN s] /\ \A i, k \in 1..n : i < k => f[i] < f[k]
    BY DEF Places
  <2>3. DOMAIN r = 1..n /\ \A k \in 1..n : r[k] = s[f[k]] /\ f[k] \in DOMAIN s
    BY <2>5, <2>2
  <2>4. Rising(r)
    BY <2>2, <2>3 DEF Rising
  <2> QED BY <2>3, <2>4 DEF Part
<1> QED BY <1>1, <1>2, <1>3, <1>4, <1>5

\* Parts of ordered buffers are ordered.
LEMMA PartsOrdered ==
  ASSUME NEW b \in Seq(Nat), NEW s \in Seq(Nat), NEW d, NEW n, Ordered(b, s, d, n),
         NEW c, NEW t, Part(c, b), Part(t, s)
  PROVE  Ordered(c, t, d, n)
BY DEF Ordered, Part

\* The next event goes to the end of what is left of the buffer.
LEMMA NextOrdered ==
  ASSUME NEW b \in Seq(Nat), NEW s \in Seq(Nat), NEW d \in Seq(Nat), NEW n \in Nat,
         Ordered(b, s, d, n)
  PROVE  Ordered(Append(b, n), s, d, n + 1)
<1> DEFINE c == Append(b, n)
<1>1. /\ DOMAIN c = 1..(Len(b) + 1) /\ Len(b) \in Nat /\ DOMAIN b = 1..Len(b)
      /\ \A k \in DOMAIN b : c[k] = b[k]
      /\ c[Len(b) + 1] = n
  OBVIOUS
<1> HIDE DEF c
<1>2. ASSUME NEW k \in DOMAIN c PROVE k = Len(b) + 1 \/ k \in DOMAIN b
  <2>1. k \in 1..(Len(b) + 1)
    BY <1>1
  <2>2. k \in 1..Len(b) \/ k = Len(b) + 1
    BY <2>1, <1>1
  <2> QED BY <2>2, <1>1
<1>3. /\ \A k \in DOMAIN b : b[k] < n /\ b[k] \in Nat
      /\ \A k \in DOMAIN s : s[k] < n /\ s[k] \in Nat
      /\ \A k \in DOMAIN d : d[k] < n /\ d[k] \in Nat
  BY DEF Ordered
<1>4. Rising(c)
  <2> SUFFICES ASSUME NEW i \in DOMAIN c, NEW k \in DOMAIN c, i < k PROVE c[i] < c[k]
    BY DEF Rising
  <2>1. i \in DOMAIN b
    BY <1>1
  <2>2. CASE k \in DOMAIN b
    BY <2>1, <2>2, <1>1 DEF Ordered, Rising
  <2>3. CASE k = Len(b) + 1
    BY <2>1, <2>3, <1>1, <1>3
  <2> QED BY <2>2, <2>3, <1>2
<1>5. Shown(d, n)
  BY <1>3 DEF Shown
<1>6. ASSUME NEW i \in DOMAIN s, NEW k \in DOMAIN c PROVE s[i] < c[k]
  <2>1. CASE k \in DOMAIN b
    BY <2>1, <1>1 DEF Ordered
  <2>2. CASE k = Len(b) + 1
    BY <2>2, <1>1, <1>3
  <2> QED BY <2>1, <2>2, <1>2
<1>7. ASSUME NEW k \in DOMAIN c PROVE c[k] < n + 1 /\ Shown(d, c[k])
  <2>1. CASE k \in DOMAIN b
    <3>1. c[k] = b[k] /\ b[k] < n /\ b[k] \in Nat
      BY <2>1, <1>1, <1>3
    <3> QED BY <2>1, <3>1 DEF Ordered
  <2>2. CASE k = Len(b) + 1
    BY <2>2, <1>1, <1>5
  <2> QED BY <2>1, <2>2, <1>2
<1>8. (\A k \in DOMAIN s : s[k] < n + 1) /\ (\A k \in DOMAIN d : d[k] < n + 1)
  BY <1>3
<1>9. Rising(s) /\ \A k \in DOMAIN s : Shown(d, s[k])
  BY DEF Ordered
<1> QED BY <1>4, <1>6, <1>7, <1>8, <1>9 DEF Ordered, c

\* Time goes on without an event.
LEMMA LaterOrdered ==
  ASSUME NEW b \in Seq(Nat), NEW s \in Seq(Nat), NEW d \in Seq(Nat), NEW n \in Nat,
         Ordered(b, s, d, n), NEW m \in Nat, n <= m
  PROVE  Ordered(b, s, d, m)
<1>1. /\ \A k \in DOMAIN b : b[k] < m
      /\ \A k \in DOMAIN s : s[k] < m
      /\ \A k \in DOMAIN d : d[k] < m
  <2>1. /\ \A k \in DOMAIN b : b[k] < n /\ b[k] \in Nat
        /\ \A k \in DOMAIN s : s[k] < n /\ s[k] \in Nat
        /\ \A k \in DOMAIN d : d[k] < n /\ d[k] \in Nat
    BY DEF Ordered
  <2> QED BY <2>1
<1> QED BY <1>1 DEF Ordered

\* The buffer becomes the snapshot.
LEMMA TakenOrdered ==
  ASSUME NEW b, NEW d, NEW n, Ordered(b, <<>>, d, n)
  PROVE  Ordered(<<>>, b, d, n)
BY DEF Ordered, Rising

\* What was not written goes back in front of what came since; the oldest go
\* when there are too many.
LEMMA BackOrdered ==
  ASSUME NEW b \in Seq(Nat), NEW s \in Seq(Nat), NEW d \in Seq(Nat), NEW n \in Nat,
         Ordered(b, s, d, n), NEW over \in 0..Len(s \o b)
  PROVE  Ordered(SubSeq(s \o b, over + 1, Len(s \o b)), <<>>, d, n)
<1> DEFINE a == s \o b
<1>1. /\ a \in Seq(Nat) /\ Len(a) = Len(s) + Len(b) /\ Len(s) \in Nat /\ Len(b) \in Nat
      /\ DOMAIN a = 1..(Len(s) + Len(b)) /\ DOMAIN s = 1..Len(s) /\ DOMAIN b = 1..Len(b)
      /\ \A k \in 1..(Len(s) + Len(b)) : a[k] = IF k <= Len(s) THEN s[k] ELSE b[k - Len(s)]
  BY ConcatProperties
<1> HIDE DEF a
<1>2. ASSUME NEW k \in DOMAIN a
      PROVE  \/ k \in DOMAIN s /\ a[k] = s[k]
             \/ k - Len(s) \in DOMAIN b /\ k > Len(s) /\ a[k] = b[k - Len(s)]
  BY SMTT(30), <1>1
<1>3. Rising(a)
  <2> SUFFICES ASSUME NEW i \in DOMAIN a, NEW k \in DOMAIN a, i < k PROVE a[i] < a[k]
    BY DEF Rising
  <2>1. CASE k \in DOMAIN s /\ a[k] = s[k]
    <3>1. i \in DOMAIN s /\ a[i] = s[i]
      BY <2>1, <1>1
    <3> QED BY <2>1, <3>1 DEF Ordered, Rising
  <2>2. CASE k - Len(s) \in DOMAIN b /\ k > Len(s) /\ a[k] = b[k - Len(s)]
    <3>1. CASE i \in DOMAIN s /\ a[i] = s[i]
      BY <2>2, <3>1 DEF Ordered
    <3>2. CASE i - Len(s) \in DOMAIN b /\ i > Len(s) /\ a[i] = b[i - Len(s)]
      <4>1. i - Len(s) < k - Len(s)
        BY <1>1
      <4> QED BY <2>2, <3>2, <4>1 DEF Ordered, Rising
    <3> QED BY <3>1, <3>2, <1>2
  <2> QED BY <2>1, <2>2, <1>2
<1>4. \A k \in DOMAIN a : a[k] < n /\ Shown(d, a[k])
  BY <1>2 DEF Ordered
<1>5. Ordered(a, <<>>, d, n)
  BY <1>3, <1>4 DEF Ordered, Rising
<1>6. Part(SubSeq(a, over + 1, Len(a)), a)
  BY <1>1, <1>3, Parts DEF a
<1>7. <<>> \in Seq(Nat) /\ Part(<<>>, <<>>)
  BY DEF Part, Rising
<1> QED BY <1>1, <1>5, <1>6, <1>7, PartsOrdered DEF a

\* The snapshot is stored: it stays known, also when nobody hears of it, and
\* nothing is shown that should have come before.
LEMMA StoredOrdered ==
  ASSUME NEW b \in Seq(Nat), NEW s \in Seq(Nat), NEW d \in Seq(Nat), NEW n \in Nat,
         Ordered(b, s, d, n)
  PROVE  /\ Ordered(b, s, d \o s, n)
         /\ InOrder(d) => InOrder(d \o s)
<1> DEFINE a == d \o s
<1>1. /\ a \in Seq(Nat) /\ Len(d) \in Nat /\ Len(s) \in Nat
      /\ DOMAIN a = 1..(Len(d) + Len(s)) /\ DOMAIN s = 1..Len(s) /\ DOMAIN d = 1..Len(d)
      /\ \A k \in 1..(Len(d) + Len(s)) : a[k] = IF k <= Len(d) THEN d[k] ELSE s[k - Len(d)]
  BY ConcatProperties
<1> HIDE DEF a
<1>2. ASSUME NEW k \in DOMAIN a
      PROVE  \/ k \in DOMAIN d /\ a[k] = d[k]
             \/ k - Len(d) \in DOMAIN s /\ k > Len(d) /\ a[k] = s[k - Len(d)]
  BY SMTT(30), <1>1
<1>3. \A k \in DOMAIN d : k \in DOMAIN a /\ a[k] = d[k]
  BY <1>1
<1>4. ASSUME NEW k \in DOMAIN s PROVE k + Len(d) \in DOMAIN a /\ a[k + Len(d)] = s[k]
  <2>1. /\ k \in 1..Len(s) /\ k + Len(d) \in 1..(Len(d) + Len(s)) /\ ~(k + Len(d) <= Len(d))
        /\ (k + Len(d)) - Len(d) = k
    BY SMTT(30), <1>1
  <2> QED BY <2>1, <1>1
<1>5. \A k \in DOMAIN d : \A x \in 1..(k - 1) : x \in DOMAIN d
  BY <1>1
<1>6. ASSUME NEW e, Shown(d, e), NEW i \in DOMAIN d, a[i] > e
      PROVE  \E x \in 1..(i - 1) : a[x] = e
  <2>1. d[i] > e
    BY <1>3, <1>6
  <2>2. PICK x \in 1..(i - 1) : d[x] = e
    BY <2>1, <1>6 DEF Shown
  <2>3. a[x] = e
    BY <2>2, <1>3, <1>5
  <2> QED BY <2>3
<1>7. ASSUME NEW m \in DOMAIN s PROVE Shown(a, s[m])
  <2> SUFFICES ASSUME NEW i \in DOMAIN a, a[i] > s[m]
               PROVE  \E x \in 1..(i - 1) : a[x] = s[m]
    BY DEF Shown
  <2>1. CASE i \in DOMAIN d
    BY <2>1, <1>6 DEF Ordered
  <2>2. CASE i - Len(d) \in DOMAIN s /\ i > Len(d) /\ a[i] = s[i - Len(d)]
    <3>1. s[i - Len(d)] > s[m] /\ s[m] \in Nat /\ s[i - Len(d)] \in Nat
      BY <2>2
    <3>2. ~(i - Len(d) < m) /\ i - Len(d) # m
      BY <2>2, <3>1 DEF Ordered, Rising
    <3>3. m + Len(d) \in 1..(i - 1)
      <4>4. Len(d) \in Nat /\ m \in 1..Len(s) /\ i \in 1..(Len(d) + Len(s)) /\ Len(s) \in Nat
        BY <1>1
      <4>5. i \in Nat /\ m \in Nat \ {0} /\ i > Len(d)
        BY <4>4, <2>2
      <4>1. /\ i \in Nat /\ m \in Nat \ {0} /\ Len(d) \in Nat /\ i - Len(d) \in Nat
        BY <4>4, <4>5
      <4>2. i - Len(d) > m
        BY <3>2, <4>1
      <4>3. m + Len(d) < i
        BY <4>1, <4>2
      <4> QED BY <4>1, <4>3
    <3> QED BY <3>3, <1>4
  <2> QED BY <2>1, <2>2, <1>2
<1>8. ASSUME NEW k \in DOMAIN b PROVE Shown(a, b[k])
  <2> SUFFICES ASSUME NEW i \in DOMAIN a, a[i] > b[k]
               PROVE  \E x \in 1..(i - 1) : a[x] = b[k]
    BY DEF Shown
  <2>1. CASE i \in DOMAIN d
    BY <2>1, <1>6 DEF Ordered
  <2>2. CASE i - Len(d) \in DOMAIN s /\ a[i] = s[i - Len(d)]
    <3>1. s[i - Len(d)] < b[k] /\ s[i - Len(d)] \in Nat /\ b[k] \in Nat
      BY <2>2 DEF Ordered
    <3> QED BY <3>1, <2>2
  <2> QED BY <2>1, <2>2, <1>2
<1>9. \A k \in DOMAIN a : a[k] < n
  BY <1>2 DEF Ordered
<1>10. Ordered(b, s, a, n)
  BY <1>7, <1>8, <1>9 DEF Ordered
<1>11. ASSUME InOrder(d) PROVE InOrder(a)
  <2> SUFFICES ASSUME NEW i \in DOMAIN a, NEW k \in DOMAIN a, i < k, a[i] > a[k]
               PROVE  \E e \in 1..(i - 1) : a[e] = a[k]
    BY DEF InOrder
  <2>1. CASE k \in DOMAIN d
    <3>1. i \in DOMAIN d /\ d[i] > d[k]
      BY <2>1, <1>1, <1>3
    <3>2. PICK e \in 1..(i - 1) : d[e] = d[k]
      BY <2>1, <3>1, <1>11 DEF InOrder
    <3>3. a[e] = a[k]
      BY <2>1, <3>1, <3>2, <1>3, <1>5
    <3> QED BY <3>3
  <2>2. CASE k - Len(d) \in DOMAIN s /\ a[k] = s[k - Len(d)]
    <3>1. Shown(a, a[k])
      BY <2>2, <1>7
    <3> QED BY <3>1 DEF Shown
  <2> QED BY <2>1, <2>2, <1>2
<1> QED BY <1>10, <1>11 DEF a

-----------------------------------------------------------------------------
(* The types *)

EventSeqs == Seq(1..MaxEvents)
JobRows == [held : BOOLEAN, cost : Counts]
StoredRows == [events : EventSeqs, usage : Counts]
Contexts == [events : EventSeqs, pending : 0..MaxEvents, dropped : Nat, usage : SUBSET Usages,
             delta : SUBSET Usages, lost : BOOLEAN, finalized : BOOLEAN]
Snapshots == [events : EventSeqs, dropped : Nat, usage : SUBSET Usages, delta : SUBSET Usages]
Flushes == [by : {"nobody", "writer", "worker", "late"},
            stage : {"batch", "again", "rows", "orphans"}, snap : Snapshots]
Workers == {"running", "final", "transition", "finalize", "check", "done"}
LateRows == [running : BOOLEAN, tries : 0..LateTries - 1, checking : Nat]
Reporters == [Usages -> {"none", "buffered", "done"}]
Loggers == [adding : BOOLEAN, last : 0..MaxEvents]
Histories == [unacked : Counts, rejected : Counts, failures : 0..MaxFailures, gaveUp : BOOLEAN]

Buffered(c) == c \in Contexts /\ Len(c.events) <= MaxPending

TypeRows ==
  /\ job \in JobRows /\ stored \in StoredRows /\ Buffered(ctx) /\ flush \in Flushes
  /\ worker \in Workers /\ late \in LateRows /\ reporter \in Reporters
  /\ logger \in Loggers /\ history \in Histories

\* An event that is about to be added has a number.
TypeInv == TypeRows /\ (logger.adding => logger.last > 0)

\* TypeRows is TypeOK with the rows split by variable.
LEMMA RowsAreTypes == TypeRows <=> TypeOK
BY DEF TypeRows, TypeOK, Buffered, EventSeqs, JobRows, StoredRows, Contexts, Snapshots, Snaps, Flushes,
       Workers, LateRows, Reporters, Loggers, Histories

\* What an event does to the buffer: it comes last, behind a part of it.
Enters(c, old, e) ==
  \E p \in EventSeqs : /\ c.events = Append(p, e)
                       /\ Rising(old.events) => Part(p, old.events)

\* Events are numbers.
LEMMA Numbers == EventSeqs \subseteq Seq(Nat)
BY ConstantsAssumption DEF ConstantsAssumption, EventSeqs

\* Sequences of anything, ...
LEMMA SeqRows ==
  ASSUME NEW S
  PROVE  /\ \A s \in Seq(S) : s # <<>> => Tail(s) \in Seq(S) /\ Len(Tail(s)) = Len(s) - 1
         /\ \A s, t \in Seq(S) : s \o t \in Seq(S)
         /\ \A s \in Seq(S) : Len(s) \in Nat
         /\ \A s \in Seq(S), o \in Nat : o <= Len(s) =>
              /\ SubSeq(s, o + 1, Len(s)) \in Seq(S)
              /\ Len(SubSeq(s, o + 1, Len(s))) = Len(s) - o
<1>1. ASSUME NEW s \in Seq(S), s # <<>> PROVE Tail(s) \in Seq(S) /\ Len(Tail(s)) = Len(s) - 1
  BY <1>1
<1>2. ASSUME NEW s \in Seq(S), NEW t \in Seq(S) PROVE s \o t \in Seq(S)
  OBVIOUS
<1>3. ASSUME NEW s \in Seq(S), NEW o \in Nat, o <= Len(s)
      PROVE  /\ SubSeq(s, o + 1, Len(s)) \in Seq(S)
             /\ Len(SubSeq(s, o + 1, Len(s))) = Len(s) - o
  BY <1>3
<1>4. \A s \in Seq(S) : Len(s) \in Nat
  OBVIOUS
<1> QED BY <1>1, <1>2, <1>3, <1>4

\* ... and of event numbers.
LEMMA EventRows ==
  /\ \A s \in EventSeqs : s # <<>> => Tail(s) \in EventSeqs /\ Len(Tail(s)) = Len(s) - 1
  /\ \A s, t \in EventSeqs : s \o t \in EventSeqs
  /\ \A s \in EventSeqs : Len(s) \in Nat
  /\ \A s \in EventSeqs, o \in Nat : o <= Len(s) =>
       /\ SubSeq(s, o + 1, Len(s)) \in EventSeqs
       /\ Len(SubSeq(s, o + 1, Len(s))) = Len(s) - o
<1> DEFINE S == 1..MaxEvents
<1>1. EventSeqs = Seq(S)
  BY DEF EventSeqs
<1> HIDE DEF S
<1> QED BY <1>1, SeqRows

\* A new event enters at the end; a full buffer drops its oldest event for it.
LEMMA AppendedRow ==
  ASSUME NEW c, Buffered(c), NEW e \in 1..MaxEvents
  PROVE  Buffered(Appended(c, e)) /\ Enters(Appended(c, e), c, e)
<1>1. c \in Contexts /\ c.events \in EventSeqs /\ c.events \in Seq(Nat) /\ c.pending \in 0..MaxEvents
      /\ c.dropped \in Nat /\ Len(c.events) <= MaxPending
  BY Numbers DEF Buffered, Contexts
<1>2. MaxPending \in Nat \ {0}
  BY ConstantsAssumption DEF ConstantsAssumption
<1>3. CASE Len(c.events) >= MaxPending
  <2>1. c.events # <<>> /\ Len(c.events) \in Nat /\ Len(c.events) > 0
    BY <1>1, <1>2, <1>3 DEF EventSeqs
  <2>2. /\ Tail(c.events) \in EventSeqs /\ Len(Tail(c.events)) = Len(c.events) - 1
        /\ Rising(c.events) => Part(Tail(c.events), c.events)
    <3>1. Rising(c.events) => Part(Tail(c.events), c.events)
      BY <2>1, <1>1, Parts
    <3> QED BY <3>1, <2>1, <1>1, EventRows
  <2>3. /\ Append(Tail(c.events), e) \in EventSeqs
        /\ Len(Append(Tail(c.events), e)) = (Len(c.events) - 1) + 1
    BY <2>2 DEF EventSeqs
  <2>4. Len(Append(Tail(c.events), e)) <= MaxPending
    BY <2>1, <2>3, <1>1, <1>2
  <2>5. (IF Head(c.events) = c.pending THEN 0 ELSE c.pending) \in 0..MaxEvents
    BY <1>1, ConstantsAssumption DEF ConstantsAssumption
  <2> DEFINE q == Append(Tail(c.events), e)
             p == IF Head(c.events) = c.pending THEN 0 ELSE c.pending
  <2>6. Appended(c, e) = [c EXCEPT !.events = q, !.pending = p, !.dropped = c.dropped + 1]
    BY <1>3 DEF Appended
  <2>7. q \in EventSeqs /\ p \in 0..MaxEvents /\ c.dropped + 1 \in Nat
    BY <2>3, <2>5, <1>1
  <2>8. Len(q) <= MaxPending
    BY <2>4
  <2>9. Enters([events |-> q], c, e)
    BY <2>2 DEF Enters
  <2> HIDE DEF q, p
  <2>10. Appended(c, e) \in Contexts /\ Appended(c, e).events = q
    BY <2>6, <2>7, <1>1 DEF Contexts
  <2> QED BY <2>8, <2>9, <2>10 DEF Buffered, Enters
<1>4. CASE ~(Len(c.events) >= MaxPending)
  <2> DEFINE q == Append(c.events, e)
  <2>1. Appended(c, e) = [c EXCEPT !.events = q]
    BY <1>4 DEF Appended
  <2>2. q \in EventSeqs /\ Len(q) = Len(c.events) + 1 /\ Len(c.events) \in Nat
    BY <1>1 DEF EventSeqs
  <2>3. Len(q) <= MaxPending
    BY <2>2, <1>2, <1>4
  <2>4. Rising(c.events) => Part(c.events, c.events)
    BY <1>1, Parts
  <2>5. Enters([events |-> q], c, e)
    BY <2>4, <1>1 DEF Enters
  <2> HIDE DEF q
  <2>6. Appended(c, e) \in Contexts /\ Appended(c, e).events = q
    BY <2>1, <2>2, <1>1 DEF Contexts
  <2> QED BY <2>3, <2>5, <2>6 DEF Buffered, Enters
<1> QED BY <1>3, <1>4

\* A part of a part of a sequence is a part of it.
LEMMA PartOfPart ==
  ASSUME NEW a, NEW b, NEW c, Part(a, b), Part(b, c)
  PROVE  Part(a, c)
BY DEF Part

\* The pending message goes first, if it is still there.
LEMMA ReplacedRow ==
  ASSUME NEW c, Buffered(c), NEW e \in 1..MaxEvents
  PROVE  Buffered(Replaced(c, e)) /\ Enters(Replaced(c, e), c, e)
<1> DEFINE old == {i \in DOMAIN c.events : c.events[i] = c.pending}
           rest == IF old = {} THEN c.events ELSE RemoveAt(c.events, CHOOSE i \in old : TRUE)
           m == [c EXCEPT !.events = rest]
<1>1. c \in Contexts /\ c.events \in EventSeqs /\ c.events \in Seq(Nat) /\ Len(c.events) <= MaxPending
      /\ Len(c.events) \in Nat
  BY Numbers DEF Buffered, Contexts, EventSeqs
<1>2. /\ rest \in EventSeqs /\ Len(rest) <= MaxPending
      /\ Rising(c.events) => Part(rest, c.events)
  <2>1. CASE old = {}
    BY <1>1, <2>1, Parts
  <2>2. CASE old # {}
    <3>1. PICK i \in old : i = CHOOSE k \in old : TRUE
      BY <2>2
    <3>2. i \in DOMAIN c.events /\ rest = RemoveAt(c.events, i)
      BY <2>2, <3>1
    <3>3. /\ RemoveAt(c.events, i) \in EventSeqs
          /\ Len(RemoveAt(c.events, i)) = Len(c.events) - 1
      BY <1>1, <3>2, WithoutPlace DEF EventSeqs
    <3>4. Rising(c.events) => Part(RemoveAt(c.events, i), c.events)
      BY <1>1, <3>2, Parts
    <3>5. Len(c.events) - 1 <= MaxPending
      BY <1>1, ConstantsAssumption DEF ConstantsAssumption
    <3> HIDE DEF rest, old
    <3> QED BY <3>2, <3>3, <3>4, <3>5
  <2> QED BY <2>1, <2>2
<1>3. Replaced(c, e) = [Appended(m, e) EXCEPT !.pending = e]
  BY DEF Replaced
<1> HIDE DEF old, rest
<1>4. Buffered(m) /\ m.events = rest
  BY <1>1, <1>2 DEF Buffered, Contexts
<1> HIDE DEF m
<1>5. Buffered(Appended(m, e)) /\ Enters(Appended(m, e), m, e)
  BY <1>4, AppendedRow
<1> DEFINE a == Appended(m, e)
<1> HIDE DEF a
<1>6. a \in Contexts /\ Len(a.events) <= MaxPending /\ Enters(a, m, e)
  BY <1>5 DEF a, Buffered
<1>7. Replaced(c, e) = [a EXCEPT !.pending = e]
  BY <1>3 DEF a
<1>8. e \in 0..MaxEvents
  BY ConstantsAssumption DEF ConstantsAssumption
<1>9. Replaced(c, e) \in Contexts /\ Replaced(c, e).events = a.events
  BY <1>6, <1>7, <1>8 DEF Contexts
<1>10. PICK p \in EventSeqs : a.events = Append(p, e) /\ (Rising(m.events) => Part(p, m.events))
  BY <1>6 DEF Enters
<1>11. ASSUME Rising(c.events) PROVE Part(p, c.events)
  <2>1. Part(rest, c.events)
    BY <1>11, <1>2
  <2>2. Part(p, rest)
    BY <2>1, <1>4, <1>10 DEF Part
  <2> QED BY <2>1, <2>2, PartOfPart
<1> QED BY <1>6, <1>9, <1>10, <1>11 DEF Buffered, Enters

\* A new stage leaves no message pending.
LEMMA StageRow ==
  ASSUME NEW c, Buffered(c), NEW e \in 1..MaxEvents
  PROVE  LET a == [Appended(c, e) EXCEPT !.pending = 0] IN Buffered(a) /\ Enters(a, c, e)
<1> DEFINE b == Appended(c, e)
           a == [b EXCEPT !.pending = 0]
<1>1. Buffered(b) /\ Enters(b, c, e)
  BY AppendedRow
<1> HIDE DEF b
<1>2. 0 \in 0..MaxEvents
  BY ConstantsAssumption DEF ConstantsAssumption
<1>3. a \in Contexts /\ a.events = b.events
  BY <1>1, <1>2 DEF Buffered, Contexts
<1>4. Buffered(a) /\ Enters(a, c, e)
  BY <1>1, <1>3 DEF Buffered, Enters
<1> QED BY <1>4 DEF b

\* A discarded buffer is well typed and has no events.
LEMMA DiscardedRows ==
  ASSUME NEW c, Buffered(c)
  PROVE  /\ Buffered(Discarded(c)) /\ Discarded(c).events = <<>>
         /\ Buffered(MarkedLost(c)) /\ MarkedLost(c).events = <<>>
<1>1. <<>> \in EventSeqs /\ Len(<<>>) = 0 /\ 0 <= MaxPending /\ 0 \in 0..MaxEvents
  BY ConstantsAssumption DEF EventSeqs, ConstantsAssumption
<1>2. c \in Contexts
  BY DEF Buffered
<1>3. Discarded(c) \in Contexts /\ Discarded(c).events = <<>>
  BY <1>1, <1>2 DEF Discarded, Contexts
<1>4. MarkedLost(c) \in Contexts /\ MarkedLost(c).events = <<>>
  BY <1>3 DEF MarkedLost, Contexts
<1> QED BY <1>1, <1>3, <1>4 DEF Buffered

\* Only the usage of a context changes.
LEMMA UsageRow ==
  ASSUME NEW c, Buffered(c), NEW us \in SUBSET Usages
  PROVE  Buffered([c EXCEPT !.usage = us]) /\ [c EXCEPT !.usage = us].events = c.events
BY DEF Buffered, Contexts

\* _restore keeps the newest of the events.
LEMMA RestoredEvents ==
  ASSUME Buffered(ctx), NEW s \in Snapshots
  PROVE  /\ Buffered(Restored(s))
         /\ \/ Restored(s).events = ctx.events
            \/ \E over \in 0..Len(s.events \o ctx.events) :
                 Restored(s).events
                   = SubSeq(s.events \o ctx.events, over + 1, Len(s.events \o ctx.events))
<1>1. ctx \in Contexts /\ ctx.events \in EventSeqs /\ s.events \in EventSeqs /\ Len(ctx.events) <= MaxPending
      /\ s.usage \subseteq Usages /\ s.delta \subseteq Usages /\ s.dropped \in Nat
      /\ ctx.usage \subseteq Usages /\ ctx.delta \subseteq Usages /\ ctx.dropped \in Nat
  BY DEF Buffered, Contexts, Snapshots
<1>2. MaxPending \in Nat
  BY ConstantsAssumption DEF ConstantsAssumption
<1>3. CASE ctx.lost
  <2>1. Restored(s) = [ctx EXCEPT !.usage = ctx.usage \cup s.usage]
    BY <1>3 DEF Restored
  <2>2. ctx.usage \cup s.usage \in SUBSET Usages
    BY <1>1
  <2> QED BY <2>1, <2>2, UsageRow
<1>4. CASE ~ctx.lost
  <2> DEFINE all == s.events \o ctx.events
             over == IF Len(all) > MaxPending THEN Len(all) - MaxPending ELSE 0
             left == SubSeq(all, over + 1, Len(all))
  <2>1. all \in EventSeqs /\ Len(all) \in Nat
    BY <1>1, EventRows
  <2>2. Restored(s) = [ctx EXCEPT !.usage = ctx.usage \cup s.usage, !.events = left,
                        !.delta = ctx.delta \cup s.delta, !.dropped = ctx.dropped + s.dropped]
    BY <1>4 DEF Restored
  <2> HIDE DEF all
  <2>3. over \in 0..Len(all) /\ Len(all) - over <= MaxPending
    BY <2>1, <1>2
  <2>6. PICK o \in 0..Len(all) : o = over
    BY <2>3
  <2>4. left \in EventSeqs /\ Len(left) <= MaxPending
    <3>1. left = SubSeq(all, o + 1, Len(all)) /\ Len(all) - o <= MaxPending
      BY <2>3, <2>6
    <3> HIDE DEF over, left
    <3>2. /\ SubSeq(all, o + 1, Len(all)) \in EventSeqs
          /\ Len(SubSeq(all, o + 1, Len(all))) = Len(all) - o
      <4>1. all \in EventSeqs /\ o \in Nat /\ o <= Len(all)
        BY <2>1, <2>6
      <4> QED BY <4>1, EventRows
    <3> QED BY <3>1, <3>2
  <2>5. left = SubSeq(all, o + 1, Len(all))
    BY <2>6
  <2> HIDE DEF over, left
  <2>7. Restored(s) \in Contexts /\ Restored(s).events = left
    <3> DEFINE us == ctx.usage \cup s.usage
               cost == ctx.delta \cup s.delta
               count == ctx.dropped + s.dropped
    <3>1. us \in SUBSET Usages /\ cost \in SUBSET Usages /\ count \in Nat
      BY <1>1
    <3>2. Restored(s) = [ctx EXCEPT !.usage = us, !.events = left, !.delta = cost, !.dropped = count]
      BY <2>2
    <3> HIDE DEF us, cost, count
    <3> QED BY <3>1, <3>2, <2>4, <1>1 DEF Contexts
  <2>8. \E x \in 0..Len(all) : Restored(s).events = SubSeq(all, x + 1, Len(all))
    BY <2>5, <2>7
  <2> QED BY <2>4, <2>7, <2>8 DEF Buffered, all
<1> QED BY <1>3, <1>4

\* A remainder of a sequence has the same kind of elements.
LEMMA RemainderRow ==
  ASSUME NEW S, NEW s \in Seq(S), NEW r \in Remainders(s)
  PROVE  r \in Seq(S)
<1>1. PICK n \in 0..Len(s) : \E f \in Places(n, s) : r = [i \in 1..n |-> s[f[i]]]
  BY DEF Remainders
<1>2. PICK f \in Places(n, s) : r = [i \in 1..n |-> s[f[i]]]
  BY <1>1
<1>3. \A i \in 1..n : f[i] \in DOMAIN s
  BY DEF Places
<1>4. \A i \in 1..n : s[f[i]] \in S
  BY <1>3
<1>5. n \in Nat
  BY <1>1
<1> QED BY <1>2, <1>4, <1>5, IsASeq

-----------------------------------------------------------------------------
(* The inductive invariant of the events *)

\* The first event that was not logged yet.
Limit == IF logger.adding THEN logger.last ELSE logger.last + 1

\* The inductive invariant of the events: what is buffered is in order,
\* behind what is in a flush, and an event of either that is overtaken in the
\* stream was shown before.
OrderInv ==
  /\ TypeInv /\ FlushIdle
  /\ Ordered(ctx.events, flush.snap.events, stored.events, Limit)
  /\ EventsInOrder

\* A stream that is ordered in the next state gives the conjuncts of OrderInv there.
LEMMA StreamInOrder ==
  ASSUME Ordered(ctx'.events, flush'.snap.events, stored'.events, Limit'), InOrder(stored'.events)
  PROVE  Ordered(ctx.events, flush.snap.events, stored.events, Limit)' /\ EventsInOrder'
BY DEF EventsInOrder, InOrder

\* The three places of events hold bounded sequences of numbers.
LEMMA Streams ==
  ASSUME TypeRows
  PROVE  /\ ctx.events \in EventSeqs /\ flush.snap.events \in EventSeqs /\ stored.events \in EventSeqs
         /\ ctx.events \in Seq(Nat) /\ flush.snap.events \in Seq(Nat) /\ stored.events \in Seq(Nat)
         /\ Limit \in Nat
<1>1. ctx.events \in EventSeqs /\ flush.snap.events \in EventSeqs /\ stored.events \in EventSeqs
  BY DEF TypeRows, Buffered, Contexts, Flushes, Snapshots, StoredRows
<1>2. Limit \in Nat
  BY ConstantsAssumption DEF TypeRows, Loggers, Limit, ConstantsAssumption
<1> QED BY <1>1, <1>2, Numbers

\* Some of the buffers go, and nothing is stored.
LEMMA StaysInOrder ==
  ASSUME OrderInv, TypeRows',
         ctx'.events \in {ctx.events, <<>>}, flush'.snap.events \in {flush.snap.events, <<>>},
         stored'.events = stored.events, UNCHANGED logger
  PROVE  Ordered(ctx.events, flush.snap.events, stored.events, Limit)' /\ EventsInOrder'
<1>1. Part(ctx'.events, ctx.events) /\ Part(flush'.snap.events, flush.snap.events)
  BY Streams, Parts DEF OrderInv, TypeInv, Ordered
<1>2. Ordered(ctx'.events, flush'.snap.events, stored.events, Limit)
  BY <1>1, Streams, PartsOrdered DEF OrderInv, TypeInv
<1>3. Limit' = Limit
  BY DEF Limit
<1> QED BY <1>2, <1>3 DEF OrderInv, EventsInOrder

\* A thread that ended its flush goes on.
LEMMA ThreadRows ==
  ASSUME TypeRows
  PROVE  /\ \A owned : FlushReturns(owned) => flush' = NoFlush /\ worker' \in Workers /\ late' \in LateRows
         /\ FlushRaises => flush' = NoFlush /\ worker' \in Workers /\ late' \in LateRows
         /\ Spawned \in LateRows
<1>1. worker \in Workers /\ late \in LateRows /\ late.tries \in Nat /\ late.checking \in Nat
      /\ 0 \in 0..LateTries - 1 /\ LateTries \in Nat
  BY ConstantsAssumption DEF TypeRows, LateRows, ConstantsAssumption
<1>2. ASSUME NEW owned, FlushReturns(owned)
      PROVE  flush' = NoFlush /\ worker' \in Workers /\ late' \in LateRows
  <2>1. worker' \in Workers
    BY <1>1, <1>2 DEF FlushReturns, Workers
  <2>2. late' \in LateRows
    BY <1>1, <1>2 DEF FlushReturns, LateRows
  <2> QED BY <1>2, <2>1, <2>2 DEF FlushReturns
<1>3. ASSUME FlushRaises
      PROVE  flush' = NoFlush /\ worker' \in Workers /\ late' \in LateRows
  <2>1. worker' \in Workers
    BY <1>1, <1>3 DEF FlushRaises, Workers
  <2>2. late' \in LateRows
    <3>1. CASE flush.by # "late"
      BY <3>1, <1>1, <1>3 DEF FlushRaises
    <3>2. CASE flush.by = "late" /\ late.tries + 1 < LateTries
      <4>1. late.tries + 1 \in 0..LateTries - 1
        BY <3>2, <1>1
      <4>2. late' = [late EXCEPT !.tries = late.tries + 1]
        BY <3>2, <1>3 DEF FlushRaises
      <4> QED BY <4>1, <4>2, <1>1 DEF LateRows
    <3>3. CASE flush.by = "late" /\ ~(late.tries + 1 < LateTries)
      <4>1. late' = [late EXCEPT !.running = FALSE, !.tries = 0]
        BY <3>3, <1>3 DEF FlushRaises
      <4> QED BY <4>1, <1>1 DEF LateRows
    <3> QED BY <3>1, <3>2, <3>3
  <2> QED BY <1>3, <2>1, <2>2 DEF FlushRaises
<1>4. Spawned \in LateRows
  BY <1>1 DEF Spawned, LateRows
<1> QED BY <1>2, <1>3, <1>4

\* The empty snapshot and the idle flush are well typed and hold no events.
LEMMA EmptyRows ==
  /\ EmptySnap \in Snapshots /\ EmptySnap.events = <<>>
  /\ NoFlush \in Flushes /\ NoFlush.snap.events = <<>>
  /\ \A us \in SUBSET Usages : /\ [EmptySnap EXCEPT !.usage = us] \in Snapshots
                               /\ [EmptySnap EXCEPT !.usage = us].events = <<>>
<1>1. <<>> \in EventSeqs
  BY DEF EventSeqs
<1>2. EmptySnap \in Snapshots /\ EmptySnap.events = <<>>
  BY <1>1 DEF EmptySnap, Snapshots
<1>3. NoFlush \in Flushes /\ NoFlush.snap.events = <<>>
  BY <1>2 DEF NoFlush, Flushes
<1>4. ASSUME NEW us \in SUBSET Usages
      PROVE  /\ [EmptySnap EXCEPT !.usage = us] \in Snapshots
             /\ [EmptySnap EXCEPT !.usage = us].events = <<>>
  BY <1>2 DEF Snapshots
<1> QED BY <1>2, <1>3, <1>4

-----------------------------------------------------------------------------
(* Every step keeps the types and the order *)

\* A usage is recorded or reported.
LEMMA ReporterInOrder ==
  ASSUME OrderInv, NEW u \in Usages, Record(u) \/ Report(u)
  PROVE  OrderInv'
<1>1. TypeRows /\ reporter \in Reporters /\ Buffered(ctx)
  BY DEF OrderInv, TypeInv, TypeRows
<1>2. CASE Record(u)
  <2> DEFINE us == ctx.usage \cup {u}
             cost == IF ctx.lost THEN ctx.delta ELSE ctx.delta \cup {u}
  <2>1. us \in SUBSET Usages /\ cost \in SUBSET Usages
    BY <1>1 DEF Buffered, Contexts
  <2>2. ctx' = [ctx EXCEPT !.usage = us, !.delta = cost]
    BY <1>2 DEF Record
  <2> HIDE DEF us, cost
  <2>3. Buffered(ctx)' /\ ctx'.events = ctx.events
    BY <2>1, <2>2, <1>1 DEF Buffered, Contexts
  <2>4. reporter' \in Reporters
    BY <1>1, <1>2 DEF Record, Reporters
  <2>5. TypeRows' /\ UNCHANGED <<flush, stored, logger>>
    BY <1>1, <1>2, <2>3, <2>4 DEF Record, TypeRows
  <2>6. Ordered(ctx.events, flush.snap.events, stored.events, Limit)' /\ EventsInOrder'
    BY <2>3, <2>5, StaysInOrder
  <2> QED BY <2>5, <2>6 DEF OrderInv, TypeInv, FlushIdle
<1>3. CASE Report(u)
  <2>1. late' \in LateRows
    BY <1>1, <1>3, ThreadRows DEF Report, TypeRows
  <2>2. reporter' \in Reporters
    BY <1>1, <1>3 DEF Report, Reporters
  <2>3. TypeRows' /\ UNCHANGED <<ctx, flush, stored, logger>>
    BY <1>1, <1>3, <2>1, <2>2 DEF Report, TypeRows, Buffered
  <2>4. Ordered(ctx.events, flush.snap.events, stored.events, Limit)' /\ EventsInOrder'
    BY <2>3, StaysInOrder
  <2> QED BY <2>3, <2>4 DEF OrderInv, TypeInv, FlushIdle
<1> QED BY <1>2, <1>3

\* A call of log or progress gets a number, ...
LEMMA StartsInOrder == ASSUME OrderInv, StartLog PROVE OrderInv'
<1>1. TypeRows /\ logger \in Loggers /\ logger.last \in Nat /\ logger.last < MaxEvents
      /\ logger' = [adding |-> TRUE, last |-> logger.last + 1]
      /\ UNCHANGED <<job, stored, ctx, flush, worker, late, reporter, history>>
      /\ ~logger.adding /\ MaxEvents \in Nat
  BY ConstantsAssumption DEF OrderInv, TypeInv, TypeRows, StartLog, Loggers, ConstantsAssumption
<1>2. logger.last + 1 \in 0..MaxEvents /\ logger.last + 1 > 0
  BY <1>1
<1>3. TypeInv'
  BY <1>1, <1>2 DEF TypeInv, TypeRows, Loggers, Buffered
<1>4. Limit' = Limit
  BY <1>1 DEF Limit
<1> QED BY <1>1, <1>3, <1>4 DEF OrderInv, FlushIdle, EventsInOrder

\* ... and goes behind what is buffered.
LEMMA AddsInOrder == ASSUME OrderInv, AddEvent PROVE OrderInv'
<1> DEFINE e == logger.last
<1>1. TypeRows /\ Buffered(ctx) /\ logger \in Loggers /\ logger.adding
      /\ e \in 0..MaxEvents /\ e > 0 /\ MaxEvents \in Nat
  BY ConstantsAssumption DEF OrderInv, TypeInv, TypeRows, AddEvent, Loggers, ConstantsAssumption
<1>2. e \in 1..MaxEvents
  BY <1>1
<1>3. Buffered(ctx') /\ Enters(ctx', ctx, e)
  BY ZenonT(60), <1>1, <1>2, AppendedRow, StageRow, ReplacedRow DEF AddEvent
<1>4. /\ logger' = [logger EXCEPT !.adding = FALSE]
      /\ UNCHANGED <<job, stored, flush, worker, late, reporter, history>>
  BY DEF AddEvent
<1>5. TypeInv'
  <2>1. logger' \in Loggers /\ ~logger'.adding
    BY <1>1, <1>4 DEF Loggers
  <2>2. Buffered(ctx)'
    BY <1>3 DEF Buffered
  <2> QED BY <1>1, <1>4, <2>1, <2>2 DEF TypeInv, TypeRows
<1>6. Limit = e /\ Limit' = e + 1
  BY <1>1, <1>4 DEF Limit, Loggers
<1>7. PICK p \in EventSeqs : ctx'.events = Append(p, e) /\ Part(p, ctx.events)
  BY <1>3 DEF Enters, OrderInv, Ordered
<1>8. Part(flush.snap.events, flush.snap.events)
  BY <1>1, Streams, Parts DEF OrderInv, Ordered
<1>9. Ordered(p, flush.snap.events, stored.events, e)
  BY <1>1, <1>6, <1>7, <1>8, Streams, PartsOrdered DEF OrderInv
<1>10. p \in Seq(Nat) /\ e \in Nat
  BY <1>1, Numbers
<1>11. Ordered(Append(p, e), flush.snap.events, stored.events, e + 1)
  BY <1>1, <1>9, <1>10, Streams, NextOrdered
<1> QED BY <1>4, <1>5, <1>6, <1>7, <1>11 DEF OrderInv, FlushIdle, EventsInOrder

\* The lease, the worker and the checks of the late threads touch no event;
\* a heartbeat that finds the lease gone discards the buffer.
LEMMA OthersInOrder ==
  ASSUME OrderInv, \/ LoseLease \/ MarkLeaseLost \/ Close \/ Transition \/ Finalize
                   \/ FinalCheck \/ LateCheck
  PROVE  OrderInv'
<1>1. TypeRows /\ Buffered(ctx) /\ job \in JobRows /\ late \in LateRows
  BY DEF OrderInv, TypeInv, TypeRows
<1>2. UNCHANGED <<stored, flush, reporter, logger, history>>
  BY DEF LoseLease, MarkLeaseLost, Close, Transition, Finalize, FinalCheck, LateCheck
<1>3. job' \in JobRows
  <2>1. CASE LoseLease
    BY <2>1, <1>1 DEF LoseLease, JobRows
  <2>2. CASE Transition
    <3>1. PICK h \in {FALSE, job.held} : job' = [job EXCEPT !.held = h]
      BY <2>2 DEF Transition
    <3>2. h \in BOOLEAN
      BY <1>1 DEF JobRows
    <3> QED BY <3>1, <3>2, <1>1 DEF JobRows
  <2>3. CASE MarkLeaseLost \/ Close \/ Finalize \/ FinalCheck \/ LateCheck
    BY <2>3, <1>1 DEF MarkLeaseLost, Close, Finalize, FinalCheck, LateCheck
  <2> QED BY <2>1, <2>2, <2>3
<1>4. Buffered(ctx') /\ ctx'.events \in {ctx.events, <<>>}
  <2>1. CASE MarkLeaseLost
    BY <2>1, <1>1, DiscardedRows DEF MarkLeaseLost
  <2>2. CASE Finalize
    BY <2>2, <1>1 DEF Finalize, Buffered, Contexts
  <2>3. CASE LoseLease \/ Close \/ Transition \/ FinalCheck \/ LateCheck
    BY <2>3, <1>1 DEF LoseLease, Close, Transition, FinalCheck, LateCheck
  <2> QED BY <2>1, <2>2, <2>3
<1>5. late' \in LateRows
  <2>1. CASE LateCheck
    <3> DEFINE l == IF HasPending THEN Spawned ELSE late
    <3>1. l \in LateRows
      BY <1>1, ThreadRows
    <3>2. late' = [l EXCEPT !.checking = late.checking - 1]
      BY <2>1 DEF LateCheck
    <3>3. late.checking - 1 \in Nat
      BY <2>1, <1>1 DEF LateCheck, LateRows
    <3> HIDE DEF l
    <3> QED BY <3>1, <3>2, <3>3 DEF LateRows
  <2>2. CASE FinalCheck
    BY <2>2, <1>1, ThreadRows DEF FinalCheck
  <2>3. CASE LoseLease \/ MarkLeaseLost \/ Close \/ Transition \/ Finalize
    BY <2>3, <1>1 DEF LoseLease, MarkLeaseLost, Close, Transition, Finalize
  <2> QED BY <2>1, <2>2, <2>3
<1>6. worker' \in Workers
  BY <1>1 DEF LoseLease, MarkLeaseLost, Close, Transition, Finalize, FinalCheck, LateCheck, TypeRows, Workers
<1>7. TypeRows'
  <2>1. Buffered(ctx)'
    BY <1>4 DEF Buffered
  <2> QED BY <1>1, <1>2, <1>3, <1>5, <1>6, <2>1 DEF TypeRows
<1>8. Ordered(ctx.events, flush.snap.events, stored.events, Limit)' /\ EventsInOrder'
  BY <1>2, <1>4, <1>7, StaysInOrder
<1> QED BY <1>2, <1>7, <1>8 DEF OrderInv, TypeInv, FlushIdle

\* A flush takes the buffer as it is.
LEMMA BeginsInOrder ==
  ASSUME OrderInv, NEW by \in {"writer", "worker", "late"}, Begin(by)
  PROVE  OrderInv'
<1>1. TypeRows /\ Buffered(ctx) /\ flush.by = "nobody" /\ flush = NoFlush /\ flush.snap.events = <<>>
      /\ UNCHANGED <<job, stored, worker, late, reporter, logger, history>>
  BY EmptyRows DEF OrderInv, TypeInv, TypeRows, FlushIdle, Begin
<1>2. {} \in SUBSET Usages /\ ctx.usage \in SUBSET Usages /\ ctx.delta \in SUBSET Usages
      /\ ctx.events \in EventSeqs /\ ctx.dropped \in Nat
  BY <1>1 DEF Buffered, Contexts
<1>3. CASE ctx.lost
  <2>1. ctx' = [ctx EXCEPT !.usage = {}]
    BY <1>3 DEF Begin
  <2>2. Buffered(ctx') /\ ctx'.events = ctx.events
    BY <2>1, <1>1, <1>2, UsageRow
  <2> DEFINE s == [EmptySnap EXCEPT !.usage = ctx.usage]
  <2>3. flush' = [by |-> by, stage |-> "orphans", snap |-> s]
    BY <1>3 DEF Begin
  <2>4. s \in Snapshots /\ s.events = <<>>
    BY <1>2, EmptyRows
  <2> HIDE DEF s
  <2>5. flush' \in Flushes /\ flush'.snap.events = <<>> /\ flush'.by # "nobody"
    BY <2>3, <2>4 DEF Flushes
  <2>6. TypeRows'
    <3>1. Buffered(ctx)'
      BY <2>2 DEF Buffered
    <3> QED BY <3>1, <2>5, <1>1 DEF TypeRows
  <2>7. Ordered(ctx.events, flush.snap.events, stored.events, Limit)' /\ EventsInOrder'
    BY <1>1, <2>2, <2>5, <2>6, StaysInOrder
  <2> QED BY <1>1, <2>5, <2>6, <2>7 DEF OrderInv, TypeInv, FlushIdle
<1>4. CASE ~ctx.lost
  <2> DEFINE c == Discarded(ctx)
             s == [events |-> ctx.events, dropped |-> ctx.dropped,
                   usage |-> ctx.usage, delta |-> ctx.delta]
  <2>1. Buffered(c) /\ c.events = <<>>
    BY <1>1, DiscardedRows
  <2>2. ctx' = [c EXCEPT !.usage = {}]
    BY <1>4 DEF Begin
  <2>3. flush' = [by |-> by, stage |-> "batch", snap |-> s]
    BY <1>4 DEF Begin
  <2>4. s \in Snapshots /\ s.events = ctx.events
    BY <1>2 DEF Snapshots
  <2> HIDE DEF c, s
  <2>5. Buffered(ctx') /\ ctx'.events = <<>>
    BY <2>1, <2>2, <1>2, UsageRow
  <2>6. flush' \in Flushes /\ flush'.snap.events = ctx.events /\ flush'.by # "nobody"
    BY <2>3, <2>4 DEF Flushes
  <2>7. TypeRows'
    <3>1. Buffered(ctx)'
      BY <2>5 DEF Buffered
    <3> QED BY <3>1, <2>6, <1>1 DEF TypeRows
  <2>8. Ordered(ctx.events, <<>>, stored.events, Limit)
    BY <1>1 DEF OrderInv
  <2>9. Ordered(<<>>, ctx.events, stored.events, Limit)
    BY <2>8, TakenOrdered
  <2>10. Ordered(ctx.events, flush.snap.events, stored.events, Limit)' /\ EventsInOrder'
    BY <1>1, <2>5, <2>6, <2>9 DEF OrderInv, EventsInOrder, Limit
  <2> QED BY <1>1, <2>6, <2>7, <2>10 DEF OrderInv, TypeInv, FlushIdle
<1> QED BY <1>3, <1>4

\* A flush that finds the lease gone gives its events up.
LEMMA LosesInOrder ==
  ASSUME OrderInv, LostDuringFlush, flush.by # "nobody", UNCHANGED <<reporter, logger>>
  PROVE  OrderInv'
<1>1. TypeRows /\ Buffered(ctx) /\ flush \in Flushes
      /\ UNCHANGED <<job, stored, worker, late, history>>
  BY DEF OrderInv, TypeInv, TypeRows, LostDuringFlush
<1> DEFINE c == MarkedLost(ctx)
           us == flush.snap.usage \cup ctx.usage
           s == [EmptySnap EXCEPT !.usage = us]
<1>2. us \in SUBSET Usages /\ {} \in SUBSET Usages
  BY <1>1 DEF Buffered, Contexts, Flushes, Snapshots
<1>3. Buffered(c) /\ c.events = <<>>
  BY <1>1, DiscardedRows
<1>4. s \in Snapshots /\ s.events = <<>>
  BY <1>2, EmptyRows
<1>5. ctx' = [c EXCEPT !.usage = {}] /\ flush' = [flush EXCEPT !.stage = "orphans", !.snap = s]
  BY DEF LostDuringFlush
<1> HIDE DEF c, us, s
<1>6. Buffered(ctx') /\ ctx'.events = <<>>
  BY <1>2, <1>3, <1>5, UsageRow
<1>7. flush' \in Flushes /\ flush'.snap.events = <<>> /\ flush'.by = flush.by
  BY <1>1, <1>4, <1>5 DEF Flushes
<1>8. TypeRows'
  <2>1. Buffered(ctx)'
    BY <1>6 DEF Buffered
  <2> QED BY <2>1, <1>1, <1>7 DEF TypeRows
<1>9. Ordered(ctx.events, flush.snap.events, stored.events, Limit)' /\ EventsInOrder'
  BY <1>1, <1>6, <1>7, <1>8, StaysInOrder
<1> QED BY <1>7, <1>8, <1>9 DEF OrderInv, TypeInv, FlushIdle

\* The rows of a transaction.
LEMMA WrittenTypes ==
  ASSUME TypeRows, NEW kept \in EventSeqs, NEW bad, Written(kept, bad)
  PROVE  job' \in JobRows /\ stored' \in StoredRows /\ stored'.events = stored.events \o kept
<1>1. job \in JobRows /\ stored.usage \in Counts /\ stored.events \in EventSeqs
  BY DEF TypeRows, StoredRows
<1> DEFINE cost == Plus(job.cost, flush.snap.delta)
           rows == Plus(stored.usage, flush.snap.usage \ bad)
           shown == stored.events \o kept
<1>2. cost \in Counts /\ rows \in Counts /\ shown \in EventSeqs
  BY <1>1, PlusCounts, EventRows DEF JobRows
<1>3. job' = [job EXCEPT !.cost = cost] /\ stored' = [events |-> shown, usage |-> rows]
  BY DEF Written
<1> HIDE DEF cost, rows, shown
<1>4. job' \in JobRows /\ stored' \in StoredRows /\ stored'.events = shown
  BY <1>1, <1>2, <1>3 DEF JobRows, StoredRows
<1> QED BY <1>4 DEF shown

\* What is left of a transaction when its connection fails.
LEMMA FailureTypes ==
  ASSUME TypeRows, NEW kept \in EventSeqs, NEW bad, NEW h \in Histories,
         ConnectionFails(h, kept, bad)
  PROVE  /\ job' \in JobRows /\ stored' \in StoredRows /\ history' \in Histories
         /\ stored'.events = stored.events \/ stored'.events = stored.events \o kept
<1>1. /\ job \in JobRows /\ stored \in StoredRows /\ history.unacked \in Counts
      /\ history.failures \in Nat /\ history.failures < MaxFailures /\ MaxFailures \in Nat
  BY ConstantsAssumption DEF TypeRows, Histories, ConnectionFails, ConstantsAssumption
<1>2. history.failures + 1 \in 0..MaxFailures
  BY <1>1
<1>3. CASE UNCHANGED <<job, stored>> /\ history' = [h EXCEPT !.failures = history.failures + 1]
  BY <1>1, <1>2, <1>3 DEF Histories
<1>4. CASE /\ Written(kept, bad)
           /\ history' = [h EXCEPT !.failures = history.failures + 1,
                !.unacked = Plus(history.unacked, flush.snap.usage \cup flush.snap.delta)]
  <2> DEFINE lost == Plus(history.unacked, flush.snap.usage \cup flush.snap.delta)
  <2>1. lost \in Counts
    BY <1>1, PlusCounts
  <2>2. history' = [h EXCEPT !.failures = history.failures + 1, !.unacked = lost]
    BY <1>4
  <2> HIDE DEF lost
  <2>3. history' \in Histories
    BY <1>2, <2>1, <2>2 DEF Histories
  <2> QED BY <1>4, <2>3, WrittenTypes
<1> QED BY <1>3, <1>4 DEF ConnectionFails

\* The rows that are kept are stored: the buffer and what is left of the
\* snapshot are known as before.
LEMMA WrittenInOrder ==
  ASSUME OrderInv, NEW kept \in EventSeqs, Part(kept, flush.snap.events)
  PROVE  /\ Ordered(ctx.events, kept, stored.events, Limit)
         /\ Ordered(ctx.events, kept, stored.events \o kept, Limit)
         /\ InOrder(stored.events \o kept)
<1>1. TypeRows /\ Ordered(ctx.events, flush.snap.events, stored.events, Limit) /\ InOrder(stored.events)
      /\ kept \in Seq(Nat)
  BY Numbers DEF OrderInv, TypeInv, EventsInOrder, InOrder
<1>2. Part(ctx.events, ctx.events)
  BY <1>1, Streams, Parts DEF Ordered
<1>3. Ordered(ctx.events, kept, stored.events, Limit)
  BY <1>1, <1>2, Streams, PartsOrdered
<1> QED BY <1>1, <1>3, Streams, StoredOrdered

\* The first transaction of a flush, or its one retry.
LEMMA BatchInOrder == ASSUME OrderInv, WriteBatch PROVE OrderInv'
<1> DEFINE rows == flush.snap.events
<1>1. /\ TypeRows /\ Buffered(ctx) /\ flush \in Flushes /\ history \in Histories
      /\ rows \in EventSeqs /\ Part(rows, rows) /\ flush.by # "nobody" /\ UNCHANGED <<reporter, logger>>
  BY Streams, Parts DEF OrderInv, TypeInv, TypeRows, WriteBatch, Ordered
<1>2. /\ Ordered(ctx.events, rows, stored.events, Limit)
      /\ Ordered(ctx.events, rows, stored.events \o rows, Limit)
      /\ InOrder(stored.events \o rows) /\ InOrder(stored.events)
  BY <1>1, WrittenInOrder DEF OrderInv, EventsInOrder, InOrder
<1>3. Limit' = Limit
  BY <1>1 DEF Limit
<1>4. CASE LostDuringFlush
  BY <1>1, <1>4, LosesInOrder
<1>5. CASE job.held /\ Written(rows, {}) /\ FlushReturns(TRUE) /\ UNCHANGED <<ctx, history>>
  <2>1. job' \in JobRows /\ stored' \in StoredRows /\ stored'.events = stored.events \o rows
    BY <1>1, <1>5, WrittenTypes
  <2>2. flush' = NoFlush /\ worker' \in Workers /\ late' \in LateRows /\ flush'.snap.events = <<>>
        /\ flush' \in Flushes
    BY <1>1, <1>5, ThreadRows, EmptyRows
  <2>3. TypeRows'
    BY <1>1, <1>5, <2>1, <2>2 DEF TypeRows, Buffered
  <2>4. Part(<<>>, rows) /\ Part(ctx.events, ctx.events)
    BY <1>1, <1>2, Streams, Parts DEF Ordered
  <2>5. stored.events \o rows \in EventSeqs
    BY <1>1, Streams, EventRows
  <2>6. Ordered(ctx.events, <<>>, stored.events \o rows, Limit)
    BY <1>1, <1>2, <2>4, <2>5, Streams, Numbers, PartsOrdered
  <2>7. Ordered(ctx.events, flush.snap.events, stored.events, Limit)' /\ EventsInOrder'
    <3>1. Ordered(ctx'.events, flush'.snap.events, stored'.events, Limit')
      BY <1>3, <1>5, <2>1, <2>2, <2>6
    <3>2. InOrder(stored'.events)
      BY <1>2, <2>1
    <3> QED BY <3>1, <3>2, StreamInOrder
  <2> QED BY <1>1, <2>2, <2>3, <2>7 DEF OrderInv, TypeInv, FlushIdle
<1>6. ASSUME NEW stage \in {"again", "rows"}, flush' = [flush EXCEPT !.stage = stage],
             UNCHANGED <<ctx, worker, late>>,
             job' \in JobRows, stored' \in StoredRows, history' \in Histories,
             stored'.events = stored.events \/ stored'.events = stored.events \o rows
      PROVE  OrderInv'
  <2>1. flush' \in Flushes /\ flush'.snap = flush.snap /\ flush'.by # "nobody"
    BY <1>1, <1>6 DEF Flushes
  <2>2. TypeRows'
    BY <1>1, <1>6, <2>1 DEF TypeRows, Buffered
  <2>3. Ordered(ctx.events, flush.snap.events, stored.events, Limit)' /\ EventsInOrder'
    <3>1. Ordered(ctx'.events, flush'.snap.events, stored'.events, Limit')
      BY <1>2, <1>3, <1>6, <2>1
    <3>2. InOrder(stored'.events)
      BY <1>2, <1>6
    <3> QED BY <3>1, <3>2, StreamInOrder
  <2> QED BY <1>1, <2>1, <2>2, <2>3 DEF OrderInv, TypeInv, FlushIdle
<1>7. CASE /\ job.held /\ ConnectionFails(history, rows, {})
           /\ flush' = [flush EXCEPT !.stage = IF flush.stage = "batch" THEN "again" ELSE "rows"]
           /\ UNCHANGED <<ctx, worker, late>>
  <2>1. /\ job' \in JobRows /\ stored' \in StoredRows /\ history' \in Histories
        /\ stored'.events = stored.events \/ stored'.events = stored.events \o rows
    BY <1>1, <1>7, FailureTypes
  <2>2. PICK stage \in {"again", "rows"} : stage = IF flush.stage = "batch" THEN "again" ELSE "rows"
    OBVIOUS
  <2>3. flush' = [flush EXCEPT !.stage = stage]
    BY <1>7, <2>2
  <2> QED BY <1>6, <1>7, <2>1, <2>3
<1>8. CASE /\ job.held /\ flush' = [flush EXCEPT !.stage = "rows"]
           /\ UNCHANGED <<job, stored, ctx, worker, late, history>>
  BY <1>1, <1>6, <1>8 DEF TypeRows
<1> QED BY <1>4, <1>5, <1>7, <1>8 DEF WriteBatch

\* The rows one by one: some are refused, and what is left is stored, goes
\* back to the buffer, or both.
LEMMA RowsInOrder == ASSUME OrderInv, WriteRows PROVE OrderInv'
<1> DEFINE rows == flush.snap.events
<1>1. /\ TypeRows /\ Buffered(ctx) /\ flush \in Flushes /\ history \in Histories
      /\ rows \in EventSeqs /\ rows \in Seq(Nat) /\ Rising(rows)
      /\ flush.by # "nobody" /\ UNCHANGED <<reporter, logger>>
  BY Streams DEF OrderInv, TypeInv, TypeRows, WriteRows, Ordered, FlushIdle, NoFlush
<1>2. Limit' = Limit
  BY <1>1 DEF Limit
<1>3. CASE LostDuringFlush
  BY <1>1, <1>3, LosesInOrder
<1>4. ASSUME NEW kept \in Remainders(rows), NEW bad \in SUBSET flush.snap.usage, job.held,
             \/ /\ Written(kept, bad) /\ history' = Refused(bad)
                /\ FlushReturns(TRUE) /\ UNCHANGED ctx
             \/ /\ ConnectionFails([Refused(bad) EXCEPT !.gaveUp = history.gaveUp \/ GivesUp],
                                   kept, bad)
                /\ ctx' = Restored(Without(flush.snap, kept, bad))
                /\ FlushRaises
      PROVE  OrderInv'
  <2>1. kept \in EventSeqs /\ kept \in Seq(Nat) /\ Part(kept, rows)
    BY <1>1, RemainderRow, Parts, Numbers DEF EventSeqs
  <2>2. /\ Ordered(ctx.events, kept, stored.events, Limit)
        /\ Ordered(ctx.events, kept, stored.events \o kept, Limit)
        /\ InOrder(stored.events \o kept) /\ InOrder(stored.events)
    BY <2>1, WrittenInOrder DEF OrderInv, EventsInOrder, InOrder
  <2>3. Refused(bad) \in Histories
    <3> DEFINE r == Plus(history.rejected, bad)
    <3>1. r \in Counts
      BY <1>1, PlusCounts DEF Histories
    <3>2. Refused(bad) = [history EXCEPT !.rejected = r]
      BY DEF Refused
    <3> HIDE DEF r
    <3> QED BY <3>1, <3>2, <1>1 DEF Histories
  <2>4. stored.events \o kept \in EventSeqs /\ stored.events \o kept \in Seq(Nat)
        /\ stored.events \in Seq(Nat) /\ ctx.events \in Seq(Nat) /\ Limit \in Nat
        /\ ctx.events \in EventSeqs
    BY <1>1, <2>1, Streams, EventRows, Numbers
  <2>5. flush' = NoFlush /\ worker' \in Workers /\ late' \in LateRows /\ flush'.snap.events = <<>>
        /\ flush' \in Flushes
    BY <1>1, <1>4, ThreadRows, EmptyRows
  <2>6. CASE /\ Written(kept, bad) /\ history' = Refused(bad)
             /\ FlushReturns(TRUE) /\ UNCHANGED ctx
    <3>1. job' \in JobRows /\ stored' \in StoredRows /\ stored'.events = stored.events \o kept
      BY <1>1, <2>1, <2>6, WrittenTypes
    <3>2. TypeRows'
      BY <1>1, <2>3, <2>5, <2>6, <3>1 DEF TypeRows, Buffered
    <3>3. Part(<<>>, kept) /\ Part(ctx.events, ctx.events)
      BY <2>1, <2>2, <2>4, Parts DEF Ordered
    <3>4. Ordered(ctx.events, <<>>, stored.events \o kept, Limit)
      BY <2>1, <2>2, <2>4, <3>3, PartsOrdered
    <3>5. Ordered(ctx'.events, flush'.snap.events, stored'.events, Limit')
      BY <1>2, <2>5, <2>6, <3>1, <3>4
    <3>6. InOrder(stored'.events)
      BY <2>2, <3>1
    <3> QED BY <1>1, <2>5, <3>2, <3>5, <3>6, StreamInOrder DEF OrderInv, TypeInv, FlushIdle
  <2>7. CASE /\ ConnectionFails([Refused(bad) EXCEPT !.gaveUp = history.gaveUp \/ GivesUp],
                                kept, bad)
             /\ ctx' = Restored(Without(flush.snap, kept, bad))
             /\ FlushRaises
    <3> DEFINE given == history.gaveUp \/ GivesUp
               r == Refused(bad)
               h == [r EXCEPT !.gaveUp = given]
               s == Without(flush.snap, kept, bad)
    <3>1. given \in BOOLEAN
      OBVIOUS
    <3>2. ConnectionFails(h, kept, bad) /\ ctx' = Restored(s)
      BY <2>7
    <3>3. s \in Snapshots /\ s.events = kept
      BY <1>1, <2>1 DEF Without, Flushes, Snapshots
    <3> HIDE DEF given, r, s
    <3>4. h \in Histories
      BY <2>3, <3>1 DEF Histories, r
    <3> HIDE DEF h
    <3>5. /\ job' \in JobRows /\ stored' \in StoredRows /\ history' \in Histories
          /\ stored'.events = stored.events \/ stored'.events = stored.events \o kept
      BY <1>1, <2>1, <3>2, <3>4, FailureTypes
    <3>6. /\ Buffered(ctx')
          /\ \/ ctx'.events = ctx.events
             \/ \E over \in 0..Len(kept \o ctx.events) :
                  ctx'.events = SubSeq(kept \o ctx.events, over + 1, Len(kept \o ctx.events))
      BY <1>1, <3>2, <3>3, RestoredEvents
    <3>7. TypeRows'
      <4>1. Buffered(ctx)'
        BY <3>6 DEF Buffered
      <4> QED BY <4>1, <1>1, <2>5, <3>5 DEF TypeRows
    <3>8. ASSUME NEW d \in {stored.events, stored.events \o kept}
          PROVE  Ordered(ctx'.events, <<>>, d, Limit)
      <4>1. Ordered(ctx.events, kept, d, Limit) /\ d \in Seq(Nat)
        BY <2>2, <2>4
      <4>2. CASE ctx'.events = ctx.events
        <5>1. Part(<<>>, kept) /\ Part(ctx.events, ctx.events)
          BY <2>1, <2>2, <2>4, Parts DEF Ordered
        <5> QED BY <4>1, <4>2, <5>1, <2>1, <2>4, PartsOrdered
      <4>3. ASSUME NEW over \in 0..Len(kept \o ctx.events),
                   ctx'.events = SubSeq(kept \o ctx.events, over + 1, Len(kept \o ctx.events))
            PROVE  Ordered(ctx'.events, <<>>, d, Limit)
        BY <4>1, <4>3, <2>1, <2>4, BackOrdered
      <4> QED BY <4>2, <4>3, <3>6
    <3>9. Ordered(ctx'.events, flush'.snap.events, stored'.events, Limit')
      BY <1>2, <2>5, <3>5, <3>8
    <3>10. InOrder(stored'.events)
      BY <2>2, <3>5
    <3> QED BY <1>1, <2>5, <3>7, <3>9, <3>10, StreamInOrder DEF OrderInv, TypeInv, FlushIdle
  <2> QED BY <1>4, <2>6, <2>7
<1> QED BY <1>1, <1>3, <1>4 DEF WriteRows

\* Usage that is written without the lease moves no event.
LEMMA OrphansInOrder == ASSUME OrderInv, WriteOrphans PROVE OrderInv'
<1>1. /\ TypeRows /\ Buffered(ctx) /\ flush \in Flushes /\ history \in Histories
      /\ stored \in StoredRows /\ UNCHANGED <<job, reporter, logger>>
  BY DEF OrderInv, TypeInv, TypeRows, WriteOrphans
<1>2. PICK bad \in SUBSET flush.snap.usage :
       LET rows == [stored EXCEPT !.usage = Plus(stored.usage, flush.snap.usage \ bad)] IN
       \/ /\ stored' = rows
          /\ history' = Refused(bad)
          /\ FlushReturns(FALSE)
          /\ UNCHANGED ctx
       \/ /\ history.failures < MaxFailures
          /\ flush.snap.usage # {}
          /\ \E acked \in BOOLEAN :
               /\ stored' = IF acked THEN stored ELSE rows
               /\ history' = [Refused(bad) EXCEPT !.failures = history.failures + 1,
                                !.gaveUp = history.gaveUp \/ GivesUp,
                                !.unacked = IF acked THEN history.unacked
                                            ELSE Plus(history.unacked, flush.snap.usage)]
          /\ ctx' = [ctx EXCEPT !.usage = ctx.usage \cup (flush.snap.usage \ bad)]
          /\ FlushRaises
  BY DEF WriteOrphans
<1> DEFINE more == Plus(stored.usage, flush.snap.usage \ bad)
           rows == [stored EXCEPT !.usage = more]
           r == Plus(history.rejected, bad)
           us == ctx.usage \cup (flush.snap.usage \ bad)
<1>3. more \in Counts /\ r \in Counts /\ us \in SUBSET Usages
  BY <1>1, PlusCounts DEF StoredRows, Histories, Buffered, Contexts, Flushes, Snapshots
<1>4. Refused(bad) = [history EXCEPT !.rejected = r]
  BY DEF Refused
<1> HIDE DEF more, r, us
<1>5. rows \in StoredRows /\ rows.events = stored.events
  BY <1>1, <1>3 DEF StoredRows
<1>6. Refused(bad) \in Histories
  BY <1>1, <1>3, <1>4 DEF Histories
<1>7. stored' \in {stored, rows}
  BY <1>2 DEF more
<1> HIDE DEF rows
<1>8. stored' \in StoredRows /\ stored'.events = stored.events
  BY <1>1, <1>5, <1>7
<1>9. Buffered(ctx') /\ ctx'.events = ctx.events
  <2>1. ctx' = ctx \/ ctx' = [ctx EXCEPT !.usage = us]
    BY <1>2 DEF us
  <2> QED BY ZenonT(60), <2>1, <1>1, <1>3, UsageRow
<1>10. flush' = NoFlush /\ worker' \in Workers /\ late' \in LateRows
  BY <1>1, <1>2, ThreadRows
<1>11. history' \in Histories
  <2>1. CASE history' = Refused(bad)
    BY <2>1, <1>6
  <2>2. ASSUME NEW acked \in BOOLEAN, history.failures < MaxFailures,
               history' = [Refused(bad) EXCEPT !.failures = history.failures + 1,
                                !.gaveUp = history.gaveUp \/ GivesUp,
                                !.unacked = IF acked THEN history.unacked
                                            ELSE Plus(history.unacked, flush.snap.usage)]
        PROVE  history' \in Histories
    <3> DEFINE n == history.failures + 1
               g == history.gaveUp \/ GivesUp
               k == IF acked THEN history.unacked ELSE Plus(history.unacked, flush.snap.usage)
               w == Refused(bad)
    <3>1. n \in 0..MaxFailures
      BY <1>1, <2>2, ConstantsAssumption DEF Histories, ConstantsAssumption
    <3>2. g \in BOOLEAN
      OBVIOUS
    <3>3. k \in Counts
      BY <1>1, PlusCounts DEF Histories
    <3>4. w \in Histories
      BY <1>6
    <3>5. history' = [w EXCEPT !.failures = n, !.gaveUp = g, !.unacked = k]
      BY <2>2
    <3> HIDE DEF n, g, k, w
    <3> QED BY <3>1, <3>2, <3>3, <3>4, <3>5 DEF Histories
  <2> QED BY <1>2, <2>1, <2>2
<1>12. flush' \in Flushes /\ flush'.snap.events = <<>>
  BY <1>10, EmptyRows
<1>13. TypeRows'
  <2>1. Buffered(ctx)'
    BY <1>9 DEF Buffered
  <2> QED BY <2>1, <1>1, <1>8, <1>10, <1>11, <1>12 DEF TypeRows
<1>14. Ordered(ctx.events, flush.snap.events, stored.events, Limit)' /\ EventsInOrder'
  BY <1>1, <1>8, <1>9, <1>12, <1>13, StaysInOrder
<1> QED BY <1>1, <1>10, <1>13, <1>14 DEF OrderInv, TypeInv, FlushIdle

\* The initial state satisfies OrderInv.
LEMMA OrderInit == ASSUME Init PROVE OrderInv
<1>1. /\ <<>> \in EventSeqs /\ Len(<<>>) = 0 /\ 0 <= MaxPending /\ 0 \in 0..MaxEvents
      /\ 0 \in 0..MaxFailures /\ 0 \in 0..LateTries - 1 /\ None \in Counts
  BY ConstantsAssumption DEF ConstantsAssumption, EventSeqs, None, Counts
<1>2. job \in JobRows /\ stored \in StoredRows /\ stored.events = <<>>
  BY <1>1 DEF Init, JobRows, StoredRows
<1>3. Buffered(ctx) /\ ctx.events = <<>>
  BY <1>1 DEF Init, Buffered, Contexts
<1>4. flush \in Flushes /\ flush.snap.events = <<>> /\ flush = NoFlush
  BY EmptyRows DEF Init
<1>5. late \in LateRows /\ logger \in Loggers /\ ~logger.adding /\ worker \in Workers
      /\ reporter \in Reporters
  BY <1>1 DEF Init, LateRows, Loggers, Workers, Reporters
<1>6. history \in Histories
  BY <1>1 DEF Init, Histories
<1>7. TypeInv
  BY <1>2, <1>3, <1>4, <1>5, <1>6 DEF TypeInv, TypeRows
<1>8. Ordered(<<>>, <<>>, <<>>, Limit)
  BY DEF Ordered, Rising
<1>9. EventsInOrder
  BY <1>2 DEF EventsInOrder
<1> QED BY <1>2, <1>3, <1>4, <1>7, <1>8, <1>9 DEF OrderInv, FlushIdle

\* Every step keeps OrderInv.
LEMMA OrderStep == ASSUME OrderInv, [Next]_vars PROVE OrderInv'
<1>1. CASE UNCHANGED vars
  BY <1>1 DEF vars, OrderInv, TypeInv, TypeRows, Buffered, FlushIdle, Limit, EventsInOrder
<1>2. CASE Next
  <2>1. ASSUME NEW u \in Usages, Record(u) \/ Report(u) PROVE OrderInv'
    BY <2>1, ReporterInOrder
  <2>2. CASE WriterFlush \/ FinalFlush \/ LateFlush
    BY <2>2, BeginsInOrder DEF WriterFlush, FinalFlush, LateFlush
  <2>3. CASE Write
    BY <2>3, BatchInOrder, RowsInOrder, OrphansInOrder DEF Write
  <2> QED BY <1>2, <2>1, <2>2, <2>3, StartsInOrder, AddsInOrder, OthersInOrder DEF Next, Process
<1> QED BY <1>1, <1>2

\* Every variable keeps the type of the object it stands for; no buffer
\* outgrows MaxPending and no late thread tries more often than it may.
THEOREM TypeCorrect == Spec => []TypeOK
<1>1. Init => OrderInv
  BY OrderInit
<1>2. OrderInv /\ [Next]_vars => OrderInv'
  BY OrderStep
<1>3. OrderInv => TypeOK
  BY RowsAreTypes DEF OrderInv, TypeInv
<1> QED BY <1>1, <1>2, <1>3, PTL DEF Spec

\* The stream shows the events in the order they were logged, and what it
\* shows late it showed before, whichever batches failed, were committed
\* unheard, were partly refused, overflowed the buffer or lost their lease.
THEOREM EventsStayInOrder == Spec => []EventsInOrder
<1>1. Init => OrderInv
  BY OrderInit
<1>2. OrderInv /\ [Next]_vars => OrderInv'
  BY OrderStep
<1>3. OrderInv => EventsInOrder
  BY DEF OrderInv
<1> QED BY <1>1, <1>2, <1>3, PTL DEF Spec

=============================================================================
