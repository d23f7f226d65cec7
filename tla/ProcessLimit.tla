---------------------------- MODULE ProcessLimit ----------------------------
(***************************************************************************)
(* jobs/limits.py: the FIFO counting semaphore shared by every thread and  *)
(* event loop of a process. Every section under ProcessLimit._lock is one  *)
(* action. A user is a task of some event loop, or a plain thread (loop    *)
(* NoLoop), with at most one request at a time. The call_soon_threadsafe   *)
(* that resolves a waiter's future is part of its Resume.                  *)
(***************************************************************************)
EXTENDS Naturals, FiniteSets, Sequences, SequencesExt

CONSTANTS
  Users,    \* tasks and threads that use the limit
  Loops,    \* event loops, one per job thread
  LoopOf,   \* the loop a task runs on
  NoLoop,   \* for a plain thread: its event never goes away
  Size      \* limit_size

ASSUME ConstantsAssumption ==
  /\ LoopOf \in [Users -> Loops \cup {NoLoop}]
  /\ NoLoop \notin Loops
  /\ Size \in Nat \ {0}

VARIABLES
  available,  \* ProcessLimit._available
  waiters,    \* ProcessLimit._waiters
  granted,    \* the users whose _Waiter.granted is set
  at,         \* at[u]: where the user is in acquire / release
  closed      \* the event loops that are closed

vars == <<available, waiters, granted, at, closed>>

-----------------------------------------------------------------------------
Queued == {waiters[i] : i \in DOMAIN waiters}
Open(u) == LoopOf[u] \notin closed
GoTo(u, place) == at' = [at EXCEPT ![u] = place]

\* acquire_async / acquire_blocking: the fast path, or a place in the queue.
Acquire(u) ==
  /\ at[u] = "idle"
  /\ Open(u)
  /\ IF available > 0 /\ waiters = <<>>
     THEN available' = available - 1 /\ UNCHANGED waiters /\ GoTo(u, "holding")
     ELSE waiters' = Append(waiters, u) /\ UNCHANGED available /\ GoTo(u, "waiting")
  /\ UNCHANGED <<granted, closed>>

\* The future is resolved, or the event set, before anything else happened.
Resume(u) ==
  /\ at[u] = "waiting"
  /\ u \in granted
  /\ Open(u)
  /\ granted' = granted \ {u}
  /\ GoTo(u, "holding")
  /\ UNCHANGED <<available, waiters, closed>>

\* The task is cancelled while it waits, even if it was granted a permit; a
\* thread's wait times out unless its event is set; the tasks of a closed
\* loop are destroyed with it.
StopWaiting(u) ==
  /\ at[u] = "waiting"
  /\ LoopOf[u] = NoLoop => u \notin granted
  /\ GoTo(u, "leaving")
  /\ UNCHANGED <<available, waiters, granted, closed>>

OpenAt == {i \in DOMAIN waiters : Open(waiters[i])}
IsFirst(i) == i \in OpenAt /\ \A k \in OpenAt : i <= k

\* Faulty variant: the permit goes back to the counter, waiters or not.
ReturnPermit(free) ==
  /\ available' = available + 1
  /\ granted' = granted \ free
  /\ UNCHANGED waiters

\* Faulty variant: the newest waiter is served first.
HandOverLast(free) ==
  IF OpenAt = {}
  THEN available' = available + 1 /\ waiters' = <<>> /\ granted' = granted \ free
  ELSE /\ Open(Last(waiters))
       /\ granted' = (granted \ free) \cup {Last(waiters)}
       /\ waiters' = Front(waiters)
       /\ UNCHANGED available

\* _release_locked: the first waiter whose loop is open gets the permit and
\* those before it are dropped; with nobody left it returns to the counter.
\* free: the waiter that gives the permit back, if it had not taken it yet.
ReleaseLocked(free) ==
  \/ /\ OpenAt = {}
     /\ available' = available + 1
     /\ waiters' = <<>>
     /\ granted' = granted \ free
  \/ \E i \in DOMAIN waiters :
       /\ IsFirst(i)
       /\ granted' = (granted \ free) \cup {waiters[i]}
       /\ waiters' = SubSeq(waiters, i + 1, Len(waiters))
       /\ UNCHANGED available

\* self._waiters.remove(waiter); a closed loop's waiter may be gone already.
LeaveQueue(u) ==
  \/ u \notin Queued /\ UNCHANGED waiters
  \/ \E i \in DOMAIN waiters : waiters[i] = u /\ waiters' = RemoveAt(waiters, i)

\* Faulty variants: a waiter that was granted a permit just goes away, or
\* never leaves the queue.
ForgetGrant(u) ==
  /\ at[u] = "leaving"
  /\ LeaveQueue(u)
  /\ granted' = granted \ {u}
  /\ GoTo(u, "idle")
  /\ UNCHANGED <<available, closed>>

AbandonInQueue(u) ==
  /\ at[u] = "leaving"
  /\ IF u \in granted THEN ReleaseLocked({u}) ELSE UNCHANGED <<waiters, available, granted>>
  /\ GoTo(u, "idle")
  /\ UNCHANGED <<available, closed>>

\* _abandon: hand the permit on, or leave the queue.
Abandon(u) ==
  /\ at[u] = "leaving"
  /\ IF u \in granted THEN ReleaseLocked({u})
     ELSE LeaveQueue(u) /\ UNCHANGED <<available, granted>>
  /\ GoTo(u, "idle")
  /\ UNCHANGED closed

\* The end of the with block, however it is left.
Release(u) ==
  /\ at[u] = "holding"
  /\ ReleaseLocked({})
  /\ GoTo(u, "idle")
  /\ UNCHANGED closed

\* run_job_loop closes the loop of its job, with tasks that ignored their
\* cancellation or not; the next job of the thread gets a new one.
CloseLoop(l) ==
  /\ l \notin closed
  /\ closed' = closed \cup {l}
  /\ UNCHANGED <<available, waiters, granted, at>>

NewLoop(l) ==
  /\ l \in closed
  /\ \A u \in Users : LoopOf[u] = l => at[u] = "idle"
  /\ closed' = closed \ {l}
  /\ UNCHANGED <<available, waiters, granted, at>>

-----------------------------------------------------------------------------
Init ==
  /\ available = Size
  /\ waiters = <<>>
  /\ granted = {}
  /\ at = [u \in Users |-> "idle"]
  /\ closed = {}

Next ==
  \/ \E u \in Users :
       Acquire(u) \/ Resume(u) \/ StopWaiting(u) \/ Abandon(u) \/ Release(u)
  \/ \E l \in Loops : CloseLoop(l) \/ NewLoop(l)

Spec == Init /\ [][Next]_vars

\* Tasks and threads go on, a with block ends, a destroyed task is collected.
Fairness ==
  \A u \in Users :
    /\ WF_vars(Resume(u)) /\ WF_vars(Abandon(u)) /\ WF_vars(Release(u))
    /\ WF_vars(~Open(u) /\ StopWaiting(u))

FairSpec == Spec /\ Fairness

-----------------------------------------------------------------------------
(* Properties *)

Holding == {u \in Users : at[u] = "holding"}

\* The fields have their types; a waiter is queued or granted, never both.
TypeOK ==
  /\ available \in 0..Size
  /\ waiters \in Seq(Users)
  /\ at \in [Users -> {"idle", "waiting", "leaving", "holding"}]
  /\ granted \subseteq {u \in Users : at[u] \in {"waiting", "leaving"}}
  /\ Queued \subseteq {u \in Users : at[u] \in {"waiting", "leaving"}} \ granted
  /\ closed \subseteq Loops

\* "Permits never leak": every permit is in the counter, with a holder, or
\* granted to somebody who will take it or hand it on. In particular at most
\* Size users hold one and no release is one too many.
PermitsConserved == available + Cardinality(Holding \cup granted) = Size

\* No permit lies idle while somebody who could take it waits.
NoIdlePermit == available > 0 => waiters = <<>>

\* The code keeps the promise of FifoLimit: a permit granted is a permit
\* held, and the waiters of closed loops are not there any more.
Live == {u \in Queued : Open(u)}
Before == {p \in Live \X Live :
             \E i, k \in DOMAIN waiters : i < k /\ waiters[i] = p[1] /\ waiters[k] = p[2]}
Promise == INSTANCE FifoLimit WITH holders <- Holding \cup granted, waiting <- Live, ahead <- Before
KeepsPromise == Promise!Spec

\* Nobody waits for ever, whoever is cancelled, times out or dies.
WaitersServed == \A u \in Users : at[u] = "waiting" ~> at[u] # "waiting"

=============================================================================
