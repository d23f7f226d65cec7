------------------------- MODULE ProcessLimitProofs -------------------------
(* Proofs about the process-wide limits, for any number of users, event    *)
(* loops and permits.                                                      *)
EXTENDS ProcessLimit, FiniteSetTheorems, SequenceTheorems, TLAPS

-----------------------------------------------------------------------------
\* Whoever has a permit, or was granted one it has not picked up.
Taken == Holding \cup granted

\* A user is queued at most once, so that a permit handed to the first
\* waiter does not reach it a second time.
QueuedOnce ==
  \A i, j \in DOMAIN waiters : waiters[i] = waiters[j] => i = j

\* The inductive invariant. That the sets stay finite is part of it: no
\* assumption says that there are finitely many users.
Inv ==
  /\ TypeOK
  /\ QueuedOnce
  /\ IsFiniteSet(Taken)
  /\ PermitsConserved
  /\ NoIdlePermit

-----------------------------------------------------------------------------
(* Facts about the queue *)

\* What _waiters holds after the first i waiters are dropped: those behind
\* them, each still once, and not the one that was at place i.
LEMMA DropFirst ==
  ASSUME waiters \in Seq(Users), QueuedOnce, NEW i \in DOMAIN waiters,
         waiters' = SubSeq(waiters, i + 1, Len(waiters))
  PROVE  /\ waiters' \in Seq(Users)
         /\ QueuedOnce'
         /\ Queued' \subseteq Queued \ {waiters[i]}
<1>1. /\ waiters' \in Seq(Users)
      /\ DOMAIN waiters' = 1..(Len(waiters) - i)
      /\ DOMAIN waiters = 1..Len(waiters) /\ Len(waiters) \in Nat
      /\ \A k \in DOMAIN waiters' : waiters'[k] = waiters[k + i]
  OBVIOUS
<1>2. \A k \in DOMAIN waiters' : k + i \in DOMAIN waiters /\ k + i # i
  BY <1>1
<1>3. QueuedOnce'
  BY SMTT(30), <1>1, <1>2 DEF QueuedOnce
<1>4. Queued' \subseteq Queued \ {waiters[i]}
  BY <1>1, <1>2 DEF QueuedOnce, Queued
<1> QED BY <1>1, <1>3, <1>4

\* deque.remove: the waiter is gone and the others keep their places.
LEMMA RemoveWaiter ==
  ASSUME waiters \in Seq(Users), QueuedOnce, NEW i \in DOMAIN waiters,
         waiters' = RemoveAt(waiters, i)
  PROVE  /\ waiters' \in Seq(Users)
         /\ DOMAIN waiters' = 1..(Len(waiters) - 1)
         /\ \A k \in DOMAIN waiters' : waiters'[k] = waiters[IF k < i THEN k ELSE k + 1]
         /\ QueuedOnce'
         /\ Queued' \subseteq Queued \ {waiters[i]}
<1>1. DOMAIN waiters = 1..Len(waiters) /\ Len(waiters) \in Nat /\ i \in 1..Len(waiters)
  OBVIOUS
<1> DEFINE before == SubSeq(waiters, 1, i - 1)
           after == SubSeq(waiters, i + 1, Len(waiters))
<1>2. before \in Seq(Users) /\ Len(before) = i - 1 /\ \A k \in 1..(i - 1) : before[k] = waiters[k]
  BY <1>1
<1>3. /\ after \in Seq(Users) /\ Len(after) = Len(waiters) - i
      /\ \A k \in 1..(Len(waiters) - i) : after[k] = waiters[k + i]
  BY <1>1
<1>4. waiters' = before \o after
  BY DEF RemoveAt
<1> HIDE DEF before, after
<1>5. /\ waiters' \in Seq(Users)
      /\ DOMAIN waiters' = 1..(Len(waiters) - 1)
      /\ \A k \in 1..(Len(waiters) - 1) :
           waiters'[k] = waiters[IF k < i THEN k ELSE k + 1]
  <2>a. before \in Seq(Users) /\ after \in Seq(Users)
    BY <1>2, <1>3
  <2>1. /\ waiters' \in Seq(Users) /\ Len(waiters') = Len(before) + Len(after)
        /\ \A k \in 1..(Len(before) + Len(after)) :
             waiters'[k] = IF k <= Len(before) THEN before[k] ELSE after[k - Len(before)]
    BY ZenonT(60), <2>a, <1>4, ConcatProperties
  <2>2. ASSUME NEW k \in 1..(Len(waiters) - 1)
        PROVE  waiters'[k] = waiters[IF k < i THEN k ELSE k + 1]
    <3>1. CASE k < i
      <4>1. k \in 1..(i - 1) /\ k \in 1..(Len(before) + Len(after)) /\ k <= Len(before)
        BY <3>1, <1>1, <1>2, <1>3
      <4>2. waiters'[k] = before[k]
        BY <2>1, <4>1
      <4> QED BY <3>1, <4>1, <4>2, <1>2
    <3>2. CASE ~(k < i)
      <4>1. k - (i - 1) \in 1..(Len(waiters) - i) /\ (k - (i - 1)) + i = k + 1
        BY <3>2, <1>1
      <4>2. k \in 1..(Len(before) + Len(after)) /\ ~(k <= Len(before))
        BY <3>2, <1>1, <1>2, <1>3
      <4>3. waiters'[k] = after[k - Len(before)]
        BY <2>1, <4>2
      <4>4. waiters'[k] = after[k - (i - 1)]
        BY <4>3, <1>2
      <4> QED BY <3>2, <4>1, <4>4, <1>3
    <3> QED BY <3>1, <3>2
  <2> QED BY <2>1, <2>2, <1>1, <1>2, <1>3
<1>6. \A k \in DOMAIN waiters' :
        /\ (IF k < i THEN k ELSE k + 1) \in DOMAIN waiters
        /\ (IF k < i THEN k ELSE k + 1) # i
  BY <1>1, <1>5
<1>7. QueuedOnce'
  <2> SUFFICES ASSUME NEW k \in DOMAIN waiters', NEW m \in DOMAIN waiters',
                      waiters'[k] = waiters'[m]
               PROVE  k = m
    BY DEF QueuedOnce
  <2>1. (IF k < i THEN k ELSE k + 1) = (IF m < i THEN m ELSE m + 1)
    BY SMTT(30), <1>5, <1>6 DEF QueuedOnce
  <2> QED BY <2>1, <1>5, <1>1
<1>8. Queued' \subseteq Queued \ {waiters[i]}
  BY SMTT(30), <1>5, <1>6 DEF QueuedOnce, Queued
<1> QED BY <1>5, <1>7, <1>8

-----------------------------------------------------------------------------
(* Each section under the lock preserves the invariant *)

\* A permit that is given back by u, which held it or had been granted it,
\* goes to exactly one other place.
LEMMA GivesBack ==
  ASSUME Inv, NEW u \in Users, NEW free,
         \/ at[u] = "holding" /\ free = {}
         \/ at[u] = "leaving" /\ u \in granted /\ free = {u},
         ReleaseLocked(free), GoTo(u, "idle"), UNCHANGED closed
  PROVE  Inv'
<1> USE DEF Inv
<1>1. u \in Taken /\ u \notin Queued /\ Taken \ {u} = (Holding \ {u}) \cup (granted \ free)
  BY DEF TypeOK, Taken, Holding
<1>2. Holding' = Holding \ {u}
  BY DEF GoTo, Holding, TypeOK
<1>3. /\ IsFiniteSet(Taken \ {u}) /\ Cardinality(Taken \ {u}) = Cardinality(Taken) - 1
      /\ Cardinality(Taken) \in Nat
  BY <1>1, FS_RemoveElement, FS_CardinalityType
<1>4. available \in 0..Size /\ available + Cardinality(Taken) = Size
  BY DEF TypeOK, PermitsConserved, Taken
<1>5. CASE OpenAt = {} /\ available' = available + 1 /\ waiters' = <<>> /\ granted' = granted \ free
  <2>1. Taken' = Taken \ {u}
    BY <1>1, <1>2, <1>5 DEF Taken
  <2>2. IsFiniteSet(Taken') /\ Cardinality(Taken') = Cardinality(Taken) - 1
    BY <2>1, <1>3
  <2>3. Cardinality(Taken') \in Nat
    BY <2>2, FS_CardinalityType
  <2>4. available' + Cardinality(Taken') = Size /\ available' \in 0..Size
    BY <2>2, <2>3, <1>3, <1>5, <1>4, ConstantsAssumption
  <2>5. Queued' = {}
    BY <1>5 DEF Queued
  <2>6. TypeOK'
    BY <2>4, <2>5, <1>5, <1>1 DEF TypeOK, GoTo
  <2> QED BY <2>2, <2>4, <2>6, <1>5 DEF QueuedOnce, NoIdlePermit, PermitsConserved, Taken
<1>6. ASSUME NEW i \in DOMAIN waiters, granted' = (granted \ free) \cup {waiters[i]},
             waiters' = SubSeq(waiters, i + 1, Len(waiters)), UNCHANGED available
      PROVE  Inv'
  <2>1. waiters[i] \in Queued /\ waiters[i] # u /\ waiters[i] \notin Taken
    BY <1>1 DEF Queued, TypeOK, Taken, Holding
  <2>2. /\ waiters' \in Seq(Users) /\ QueuedOnce' /\ Queued' \subseteq Queued \ {waiters[i]}
    BY <1>6, DropFirst DEF TypeOK
  <2>3. Taken' = (Taken \ {u}) \cup {waiters[i]}
    BY <1>1, <1>2, <1>6 DEF Taken
  <2>4. /\ IsFiniteSet(Taken')
        /\ Cardinality(Taken') = Cardinality(Taken)
    <3>1. waiters[i] \notin Taken \ {u}
      BY <2>1
    <3>2. /\ IsFiniteSet((Taken \ {u}) \cup {waiters[i]})
          /\ Cardinality((Taken \ {u}) \cup {waiters[i]}) = Cardinality(Taken \ {u}) + 1
      BY <3>1, <1>3, FS_AddElement
    <3> QED BY <3>2, <2>3, <1>3
  <2>5. available = 0
    BY ConstantsAssumption DEF NoIdlePermit, TypeOK
  <2>6. TypeOK'
    BY <2>1, <2>2, <1>1, <1>6 DEF TypeOK, GoTo
  <2> QED BY <2>2, <2>4, <2>5, <2>6, <1>6 DEF PermitsConserved, NoIdlePermit, Taken
<1> QED BY <1>5, <1>6 DEF ReleaseLocked

\* A caller takes a free permit or queues up.
LEMMA Acquires ==
  ASSUME Inv, NEW u \in Users, Acquire(u)
  PROVE  Inv'
<1> USE DEF Inv
<1>1. u \notin Taken /\ u \notin Queued
  BY DEF Acquire, TypeOK, Taken, Holding
<1>2. CASE available > 0 /\ waiters = <<>>
  <2>1. available' = available - 1 /\ waiters' = waiters /\ granted' = granted
        /\ closed' = closed /\ at' = [at EXCEPT ![u] = "holding"]
    BY <1>2 DEF Acquire, GoTo
  <2>2. Holding' = Holding \cup {u}
    BY <2>1 DEF Holding, TypeOK
  <2>3. Taken' = Taken \cup {u}
    BY <2>1, <2>2 DEF Taken
  <2>4. IsFiniteSet(Taken') /\ Cardinality(Taken') = Cardinality(Taken) + 1
        /\ Cardinality(Taken) \in Nat
    BY <2>3, <1>1, FS_AddElement, FS_CardinalityType
  <2>5. Queued' = {}
    BY <2>1, <1>2 DEF Queued
  <2>6. TypeOK'
    <3>1. available' \in 0..Size
      BY <2>1, <1>2, ConstantsAssumption DEF TypeOK
    <3>2. at' \in [Users -> {"idle", "waiting", "leaving", "holding"}] /\ u \notin granted
      BY <2>1, <1>1 DEF TypeOK, Taken
    <3> QED BY <3>1, <3>2, <2>1, <2>5 DEF TypeOK
  <2> QED BY <2>1, <2>4, <2>6, <1>2 DEF PermitsConserved, NoIdlePermit, QueuedOnce, Taken, TypeOK
<1>3. CASE ~(available > 0 /\ waiters = <<>>)
  <2>1. waiters' = Append(waiters, u) /\ available' = available /\ granted' = granted
        /\ closed' = closed /\ at' = [at EXCEPT ![u] = "waiting"]
    BY <1>3 DEF Acquire, GoTo
  <2>2. Taken' = Taken
    BY <2>1, <1>1 DEF Taken, Holding, TypeOK
  <2>3. /\ waiters' \in Seq(Users) /\ DOMAIN waiters' = 1..(Len(waiters) + 1)
        /\ DOMAIN waiters = 1..Len(waiters) /\ Len(waiters) \in Nat
        /\ \A k \in DOMAIN waiters : waiters'[k] = waiters[k]
        /\ waiters'[Len(waiters) + 1] = u
    BY <2>1 DEF TypeOK
  <2>4. Queued' = Queued \cup {u}
    BY <2>3 DEF Queued
  <2>5. QueuedOnce'
    BY <2>3, <1>1 DEF QueuedOnce, Queued
  <2>6. TypeOK'
    BY <2>1, <2>3, <2>4, <1>1 DEF TypeOK, Taken
  <2>7. available = 0
    BY <1>3, ConstantsAssumption DEF NoIdlePermit, TypeOK
  <2>8. IsFiniteSet(Taken') /\ available' + Cardinality(Taken') = Size
    BY <2>1, <2>2 DEF PermitsConserved, Taken
  <2> QED BY <2>1, <2>5, <2>6, <2>7, <2>8 DEF PermitsConserved, NoIdlePermit, Taken
<1> QED BY <1>2, <1>3

\* A granted waiter picks its permit up: the permit changes its place only.
LEMMA Resumes ==
  ASSUME Inv, NEW u \in Users, Resume(u)
  PROVE  Inv'
<1>1. Taken' = Taken
  BY DEF Inv, Resume, GoTo, Taken, Holding, TypeOK
<1>2. Queued' = Queued
  BY DEF Resume, Queued
<1>3. TypeOK'
  BY <1>2 DEF Inv, Resume, GoTo, TypeOK
<1> QED BY <1>1, <1>2, <1>3 DEF Inv, Resume, QueuedOnce, PermitsConserved, NoIdlePermit, Taken

\* A waiter that stops waiting keeps its grant until it hands it on.
LEMMA StopsWaiting ==
  ASSUME Inv, NEW u \in Users, StopWaiting(u)
  PROVE  Inv'
<1>1. Taken' = Taken
  BY DEF Inv, StopWaiting, GoTo, Taken, Holding, TypeOK
<1>2. Queued' = Queued
  BY DEF StopWaiting, Queued
<1>3. TypeOK'
  BY <1>2 DEF Inv, StopWaiting, GoTo, TypeOK
<1> QED BY <1>1, <1>2, <1>3
     DEF Inv, StopWaiting, QueuedOnce, PermitsConserved, NoIdlePermit, Taken

\* A waiter without a grant leaves the queue, wherever it stands in it.
LEMMA Abandons ==
  ASSUME Inv, NEW u \in Users, Abandon(u)
  PROVE  Inv'
<1>1. CASE u \in granted
  BY <1>1, GivesBack DEF Abandon
<1>2. CASE u \notin granted
  <2>1. /\ LeaveQueue(u) /\ available' = available /\ granted' = granted
        /\ closed' = closed /\ at' = [at EXCEPT ![u] = "idle"] /\ at[u] = "leaving"
    BY <1>2 DEF Abandon, GoTo
  <2>2. Taken' = Taken
    BY <2>1 DEF Inv, Taken, Holding, TypeOK
  <2>3. /\ waiters' \in Seq(Users) /\ QueuedOnce' /\ Queued' \subseteq Queued \ {u}
        /\ waiters = <<>> => waiters' = <<>>
    <3>1. CASE u \notin Queued /\ UNCHANGED waiters
      BY <3>1 DEF Inv, TypeOK, QueuedOnce, Queued
    <3>2. ASSUME NEW i \in DOMAIN waiters, waiters[i] = u, waiters' = RemoveAt(waiters, i)
          PROVE  /\ waiters' \in Seq(Users) /\ QueuedOnce' /\ Queued' \subseteq Queued \ {u}
                 /\ waiters # <<>>
      BY <3>2, RemoveWaiter DEF Inv, TypeOK
    <3> QED BY <2>1, <3>1, <3>2 DEF LeaveQueue
  <2>4. TypeOK'
    BY <2>1, <2>3, <1>2 DEF Inv, TypeOK
  <2> QED BY <2>1, <2>2, <2>3, <2>4 DEF Inv, PermitsConserved, NoIdlePermit, Taken
<1> QED BY <1>1, <1>2

\* Closing or renewing an event loop moves no permit.
LEMMA LoopsChange ==
  ASSUME Inv, NEW l \in Loops, CloseLoop(l) \/ NewLoop(l)
  PROVE  Inv'
<1>1. /\ UNCHANGED <<available, waiters, granted, at>> /\ closed' \subseteq Loops
  BY DEF Inv, TypeOK, CloseLoop, NewLoop
<1> QED BY <1>1 DEF Inv, TypeOK, Queued, QueuedOnce, Taken, Holding, PermitsConserved, NoIdlePermit

\* A new limit satisfies the invariant, ...
LEMMA InitInv == Init => Inv
<1> SUFFICES ASSUME Init PROVE Inv
  OBVIOUS
<1>1. Queued = {} /\ Taken = {}
  BY DEF Init, Queued, Taken, Holding
<1>2. IsFiniteSet(Taken) /\ Cardinality(Taken) = 0
  BY <1>1, FS_EmptySet
<1>3. TypeOK
  BY <1>1, ConstantsAssumption DEF Init, TypeOK
<1> QED BY <1>2, <1>3, ConstantsAssumption
     DEF Inv, Init, QueuedOnce, PermitsConserved, NoIdlePermit, Taken

\* ... and every step preserves it.
LEMMA NextInv == Inv /\ [Next]_vars => Inv'
<1> SUFFICES ASSUME Inv, [Next]_vars PROVE Inv'
  OBVIOUS
<1>1. ASSUME NEW u \in Users, Release(u) PROVE Inv'
  BY <1>1, GivesBack DEF Release
<1>2. CASE UNCHANGED vars
  BY <1>2 DEF vars, Inv, TypeOK, Queued, QueuedOnce, Taken, Holding, PermitsConserved, NoIdlePermit
<1> QED BY <1>1, <1>2, Acquires, Resumes, StopsWaiting, Abandons, LoopsChange DEF Next

-----------------------------------------------------------------------------
\* Every field keeps its type, and available never leaves 0..Size: the
\* ValueError of _release_locked ("released more times than acquired") is
\* never raised.
THEOREM TypeCorrect == Spec => []TypeOK
<1>1. Inv => TypeOK
  BY DEF Inv
<1> QED BY InitInv, NextInv, <1>1, PTL DEF Spec

\* No cancellation, timeout or closed event loop leaks a permit or hands one
\* out twice, for any number of users and permits.
THEOREM PermitsNeverLeak == Spec => []PermitsConserved
<1>1. Inv => PermitsConserved
  BY DEF Inv
<1> QED BY InitInv, NextInv, <1>1, PTL DEF Spec

\* Nobody waits beside a free permit: acquire may go to the end of the queue
\* whenever the queue is not empty, and still never strands a permit.
THEOREM NeverIdle == Spec => []NoIdlePermit
<1>1. Inv => NoIdlePermit
  BY DEF Inv
<1> QED BY InitInv, NextInv, <1>1, PTL DEF Spec

-----------------------------------------------------------------------------
(* The code keeps the promise of FifoLimit *)

\* The first of the pair came before the second.
InOrder(p) ==
  \E i, k \in DOMAIN waiters : i < k /\ waiters[i] = p[1] /\ waiters[k] = p[2]

\* Those who stay in the queue keep their order: it is enough that each of
\* them comes from a place of its own, in the same order.
LEMMA OrderStays ==
  ASSUME waiters \in Seq(Users), waiters' \in Seq(Users), QueuedOnce,
         NEW f \in [DOMAIN waiters' -> DOMAIN waiters],
         \A k \in DOMAIN waiters' : waiters'[k] = waiters[f[k]],
         \A i, k \in DOMAIN waiters' : i < k => f[i] < f[k],
         NEW p, p[1] \in Queued', p[2] \in Queued'
  PROVE  InOrder(p)' <=> InOrder(p)
<1>1. /\ DOMAIN waiters \subseteq Int /\ DOMAIN waiters' \subseteq Int
  OBVIOUS
<1>2. ASSUME InOrder(p)' PROVE InOrder(p)
  <2>1. PICK i \in DOMAIN waiters', k \in DOMAIN waiters' :
               i < k /\ waiters'[i] = p[1] /\ waiters'[k] = p[2]
    BY <1>2 DEF InOrder
  <2>2. f[i] \in DOMAIN waiters /\ f[k] \in DOMAIN waiters /\ f[i] < f[k]
        /\ waiters[f[i]] = p[1] /\ waiters[f[k]] = p[2]
    BY <2>1
  <2> QED BY <2>2 DEF InOrder
<1>3. ASSUME InOrder(p) PROVE InOrder(p)'
  <2>1. PICK i \in DOMAIN waiters, k \in DOMAIN waiters :
               i < k /\ waiters[i] = p[1] /\ waiters[k] = p[2]
    BY <1>3 DEF InOrder
  <2>2. PICK a \in DOMAIN waiters' : waiters'[a] = p[1]
    BY DEF Queued
  <2>3. PICK b \in DOMAIN waiters' : waiters'[b] = p[2]
    BY DEF Queued
  <2>4. f[a] \in DOMAIN waiters /\ waiters[f[a]] = waiters[i]
    BY <2>1, <2>2
  <2>5. f[b] \in DOMAIN waiters /\ waiters[f[b]] = waiters[k]
    BY <2>1, <2>3
  <2>6. f[a] = i /\ f[b] = k
    BY <2>1, <2>4, <2>5 DEF QueuedOnce
  <2>7. ~(b < a) /\ a # b
    <3>1. ASSUME b < a PROVE FALSE
      <4>1. f[b] < f[a]
        BY <3>1
      <4> QED BY <4>1, <2>6, <2>1, <1>1
    <3>2. ASSUME a = b PROVE FALSE
      <4>1. i = k
        BY <3>2, <2>6
      <4> QED BY <4>1, <2>1, <1>1
    <3> QED BY <3>1, <3>2
  <2>8. a < b
    BY <2>7, <1>1
  <2> QED BY <2>2, <2>3, <2>8 DEF InOrder
<1> QED BY <1>2, <1>3

\* If the places of the queue stay in order and no loop changes, the abstract
\* queue is the old one without those who are gone.
LEMMA QueueStays ==
  ASSUME waiters \in Seq(Users), waiters' \in Seq(Users), QueuedOnce,
         NEW f \in [DOMAIN waiters' -> DOMAIN waiters],
         \A k \in DOMAIN waiters' : waiters'[k] = waiters[f[k]],
         \A i, k \in DOMAIN waiters' : i < k => f[i] < f[k],
         UNCHANGED closed
  PROVE  Live' \subseteq Live /\ Before' = Before \cap (Live' \X Live')
<1>1. Queued' \subseteq Queued
  BY DEF Queued
<1>2. Live' \subseteq Live
  BY <1>1 DEF Live, Open
<1>3. \A p \in Live' \X Live' : p[1] \in Queued' /\ p[2] \in Queued'
  BY DEF Live
<1>4. \A p \in Live' \X Live' : InOrder(p)' <=> InOrder(p)
  BY <1>3, OrderStays
<1>5. /\ Before = {p \in Live \X Live : InOrder(p)}
      /\ Before' = {p \in Live' \X Live' : InOrder(p)'}
  BY DEF Before, InOrder
<1> QED BY <1>2, <1>4, <1>5

\* Users that wait nowhere are not in the queue.
LEMMA OnlyWaitersQueue ==
  ASSUME TypeOK
  PROVE  /\ waiters \in Seq(Users) /\ Queued \subseteq Users
         /\ Queued \cap Taken = {}
         /\ \A u \in Queued : at[u] \in {"waiting", "leaving"}
BY DEF TypeOK, Taken, Holding

\* A permit that is given back goes to the first waiter of an open loop, or
\* to nobody when none is there.
LEMMA HandsOver ==
  ASSUME Inv, NEW u \in Users, NEW free,
         \/ at[u] = "holding" /\ free = {}
         \/ at[u] = "leaving" /\ u \in granted /\ free = {u},
         ReleaseLocked(free), GoTo(u, "idle"), UNCHANGED closed
  PROVE  Promise!Leave(u)
<1> USE DEF Inv
<1>1. u \in Taken /\ Taken \ {u} = (Holding \ {u}) \cup (granted \ free)
  BY DEF TypeOK, Taken, Holding
<1>2. Holding' = Holding \ {u}
  BY DEF GoTo, Holding, TypeOK
<1>3. waiters \in Seq(Users) /\ Queued \subseteq Users /\ Queued \cap Taken = {}
  BY OnlyWaitersQueue
<1>4. CASE OpenAt = {} /\ available' = available + 1 /\ waiters' = <<>> /\ granted' = granted \ free
  <2>1. Holding' \cup granted' = Taken \ {u}
    BY <1>1, <1>2, <1>4
  <2>2. Live = {} /\ Live' = {}
    BY <1>4 DEF Live, OpenAt, Queued
  <2>3. Before = {} /\ Before' = {}
    BY <2>2 DEF Before
  <2> QED BY <1>1, <2>1, <2>2, <2>3 DEF Promise!Leave, Taken
<1>5. ASSUME NEW i \in DOMAIN waiters, IsFirst(i), granted' = (granted \ free) \cup {waiters[i]},
             waiters' = SubSeq(waiters, i + 1, Len(waiters))
      PROVE  Promise!Leave(u)
  <2> DEFINE v == waiters[i]
             f == [k \in DOMAIN waiters' |-> k + i]
  <2>1. /\ waiters' \in Seq(Users)
        /\ DOMAIN waiters' = 1..(Len(waiters) - i)
        /\ DOMAIN waiters = 1..Len(waiters) /\ Len(waiters) \in Nat /\ i \in Nat
        /\ \A k \in DOMAIN waiters' : waiters'[k] = waiters[k + i]
    BY <1>3, <1>5
  <2>2. f \in [DOMAIN waiters' -> DOMAIN waiters]
    BY <2>1
  <2>3. /\ \A k \in DOMAIN waiters' : waiters'[k] = waiters[f[k]]
        /\ \A j, k \in DOMAIN waiters' : j < k => f[j] < f[k]
    BY <2>1
  <2> HIDE DEF f
  <2>4. Live' \subseteq Live /\ Before' = Before \cap (Live' \X Live')
    BY <2>1, <2>2, <2>3, <1>3, QueueStays
  <2>5. v \in Live /\ v \in Users /\ v \in Queued
    BY <1>5, <1>3 DEF IsFirst, OpenAt, Live, Queued
  <2>6. ASSUME NEW w \in Live \ {v}
        PROVE  \E j \in DOMAIN waiters : i < j /\ waiters[j] = w
    <3>1. PICK j \in DOMAIN waiters : waiters[j] = w
      BY DEF Live, Queued
    <3>2. j \in OpenAt /\ j # i
      BY <3>1 DEF OpenAt, Live
    <3>3. i <= j
      BY <3>2, <1>5 DEF IsFirst
    <3> QED BY <3>1, <3>2, <3>3, <2>1
  <2>7. Promise!First(v)
    <3>1. ASSUME NEW w \in Live \ {v} PROVE <<v, w>> \in Before
      <4>1. PICK j \in DOMAIN waiters : i < j /\ waiters[j] = w
        BY <2>6
      <4> QED BY <4>1, <2>5 DEF Before
    <3> QED BY <3>1, <2>5 DEF Promise!First
  <2>8. Live' = Live \ {v}
    <3>1. v \notin Live'
      BY <1>5, <1>3, DropFirst DEF Live
    <3>2. ASSUME NEW w \in Live \ {v} PROVE w \in Live'
      <4>1. PICK j \in DOMAIN waiters : i < j /\ waiters[j] = w
        BY <2>6
      <4>2. j - i \in DOMAIN waiters' /\ (j - i) + i = j
        BY <4>1, <2>1
      <4>3. waiters'[j - i] = w
        BY <4>1, <4>2, <2>1
      <4>4. w \in Queued'
        BY <4>2, <4>3 DEF Queued
      <4> QED BY <4>4 DEF Live, Open
    <3> QED BY <3>1, <3>2, <2>4
  <2>9. Holding' \cup granted' = (Taken \ {u}) \cup {v}
    BY <1>1, <1>2, <1>5
  <2> HIDE DEF v
  <2> QED BY <1>1, <2>4, <2>5, <2>7, <2>8, <2>9 DEF Promise!Leave, Promise!Stay, Taken
<1> QED BY <1>4, <1>5 DEF ReleaseLocked

\* FifoLimit counts as this module does.
LEMMA SameCount == \A S : Promise!Cardinality(S) = Cardinality(S)
BY DEF Promise!Cardinality, Cardinality

\* acquire takes a free permit, or stands at the end of the queue when all
\* are taken: the test of the code (a permit is there and nobody queues) and
\* that of the promise (not all permits are taken) agree.
LEMMA Comes ==
  ASSUME Inv, NEW u \in Users, Acquire(u)
  PROVE  Promise!Come(u)
<1>1. /\ waiters \in Seq(Users) /\ Queued \subseteq Users
      /\ u \notin Taken /\ u \notin Queued
  BY DEF Inv, Acquire, TypeOK, Taken, Holding
<1>2. Cardinality(Taken) \in Nat /\ available \in 0..Size /\ available + Cardinality(Taken) = Size
  BY FS_CardinalityType DEF Inv, TypeOK, PermitsConserved, Taken
<1>3. u \notin Taken \cup Live
  BY <1>1 DEF Live
<1>4. CASE available > 0 /\ waiters = <<>>
  <2>1. waiters' = waiters /\ granted' = granted /\ closed' = closed
        /\ at' = [at EXCEPT ![u] = "holding"]
    BY <1>4 DEF Acquire, GoTo
  <2>2. Holding' \cup granted' = Taken \cup {u}
    BY <2>1 DEF Inv, Holding, TypeOK, Taken
  <2>3. Live' = Live /\ Before' = Before
    BY <2>1 DEF Live, Before, Queued, Open
  <2>4. Cardinality(Taken) # Size
    BY <1>2, <1>4, ConstantsAssumption
  <2>5. ~Promise!Full
    BY <2>4, SameCount DEF Promise!Full, Taken
  <2>6. u \notin (Holding \cup granted) \cup Live
    BY <1>3 DEF Taken
  <2>7. Holding' \cup granted' = (Holding \cup granted) \cup {u}
    BY <2>2 DEF Taken
  <2> QED BY <2>3, <2>5, <2>6, <2>7 DEF Promise!Come
<1>5. CASE ~(available > 0 /\ waiters = <<>>)
  <2>1. waiters' = Append(waiters, u) /\ granted' = granted /\ closed' = closed
        /\ at' = [at EXCEPT ![u] = "waiting"] /\ Open(u)
    BY <1>5 DEF Acquire, GoTo
  <2>2. Holding' \cup granted' = Taken
    BY <2>1, <1>1 DEF Inv, Holding, TypeOK, Taken
  <2>3. /\ waiters' \in Seq(Users) /\ DOMAIN waiters' = 1..(Len(waiters) + 1)
        /\ DOMAIN waiters = 1..Len(waiters) /\ Len(waiters) \in Nat
        /\ \A k \in DOMAIN waiters : waiters'[k] = waiters[k]
        /\ waiters'[Len(waiters) + 1] = u
    BY <2>1, <1>1
  <2>4. Queued' = Queued \cup {u}
    BY <2>3 DEF Queued
  <2>5. Live' = Live \cup {u}
    BY <2>1, <2>4 DEF Live, Open
  <2>6. ASSUME NEW p \in Live' \X Live'
        PROVE  InOrder(p)' <=> (p \in Live \X Live /\ InOrder(p)) \/ p \in Live \X {u}
    <3>1. ASSUME p \in Live \X Live, InOrder(p) PROVE InOrder(p)'
      BY <3>1, <2>3 DEF InOrder
    <3>2. ASSUME p \in Live \X {u} PROVE InOrder(p)'
      <4>1. PICK i \in DOMAIN waiters : waiters[i] = p[1]
        BY <3>2 DEF Live, Queued
      <4>2. i < Len(waiters) + 1 /\ i \in DOMAIN waiters' /\ Len(waiters) + 1 \in DOMAIN waiters'
            /\ waiters'[i] = p[1] /\ waiters'[Len(waiters) + 1] = p[2]
        BY <4>1, <3>2, <2>3
      <4> QED BY <4>2 DEF InOrder
    <3>3. ASSUME InOrder(p)' PROVE (p \in Live \X Live /\ InOrder(p)) \/ p \in Live \X {u}
      <4>1. PICK i \in DOMAIN waiters', k \in DOMAIN waiters' :
                   i < k /\ waiters'[i] = p[1] /\ waiters'[k] = p[2]
        BY <3>3 DEF InOrder
      <4>2. i \in DOMAIN waiters /\ waiters[i] = p[1]
        BY <4>1, <2>3
      <4>3. p[1] \in Queued /\ p[1] # u
        BY <4>2, <1>1 DEF Queued
      <4>4. p = <<p[1], p[2]>> /\ p[1] \in Live
        BY <4>3, <2>5
      <4>5. CASE k = Len(waiters) + 1
        BY <4>5, <4>1, <4>4, <2>3
      <4>6. CASE k # Len(waiters) + 1
        <5>1. k \in DOMAIN waiters /\ waiters[k] = p[2]
          BY <4>6, <4>1, <2>3
        <5>2. p[2] \in Queued /\ p[2] # u
          BY <5>1, <1>1 DEF Queued
        <5>3. p[2] \in Live
          BY <5>2, <2>5
        <5> QED BY <5>1, <5>3, <4>1, <4>2, <4>4 DEF InOrder
      <4> QED BY <4>5, <4>6
    <3> QED BY <3>1, <3>2, <3>3
  <2>7. Before' = Before \cup (Live \X {u})
    <3>1. /\ Before = {p \in Live \X Live : InOrder(p)}
          /\ Before' = {p \in Live' \X Live' : InOrder(p)'}
      BY DEF Before, InOrder
    <3>2. Live \X Live \subseteq Live' \X Live' /\ Live \X {u} \subseteq Live' \X Live'
      BY <2>5
    <3> QED BY <3>1, <3>2, <2>6
  <2>8. available = 0
    BY <1>5, ConstantsAssumption DEF Inv, NoIdlePermit, TypeOK
  <2>9. Cardinality(Taken) = Size
    BY <2>8, <1>2
  <2>10. Promise!Full
    BY <2>9, SameCount DEF Promise!Full, Taken
  <2>11. u \notin (Holding \cup granted) \cup Live
    BY <1>3 DEF Taken
  <2>12. Holding' \cup granted' = Holding \cup granted
    BY <2>2 DEF Taken
  <2> QED BY <2>5, <2>7, <2>10, <2>11, <2>12 DEF Promise!Come
<1> QED BY <1>4, <1>5

\* A waiter that leaves without a grant takes only its own place with it.
LEMMA GivesUp ==
  ASSUME Inv, NEW u \in Users, Abandon(u), u \notin granted
  PROVE  Promise!GiveUp({u})
<1>1. /\ LeaveQueue(u) /\ granted' = granted /\ closed' = closed
      /\ at' = [at EXCEPT ![u] = "idle"] /\ at[u] = "leaving"
  BY DEF Abandon, GoTo
<1>2. Holding' \cup granted' = Taken
  BY <1>1 DEF Inv, Taken, Holding, TypeOK
<1>3. waiters \in Seq(Users) /\ QueuedOnce
  BY DEF Inv, TypeOK
<1>4. CASE u \notin Queued /\ UNCHANGED waiters
  <2>1. Live' = Live /\ Before' = Before
    BY <1>1, <1>4 DEF Live, Before, Queued, Open
  <2>2. u \notin Live
    BY <1>4 DEF Live
  <2>3. Before \subseteq Live \X Live
    BY DEF Before
  <2> QED BY <1>2, <2>1, <2>2, <2>3 DEF Promise!GiveUp, Promise!Stay, Taken
<1>5. ASSUME NEW i \in DOMAIN waiters, waiters[i] = u, waiters' = RemoveAt(waiters, i)
      PROVE  Promise!GiveUp({u})
  <2> DEFINE f == [k \in DOMAIN waiters' |-> IF k < i THEN k ELSE k + 1]
  <2>1. /\ DOMAIN waiters = 1..Len(waiters) /\ Len(waiters) \in Nat /\ i \in 1..Len(waiters)
        /\ waiters' \in Seq(Users) /\ DOMAIN waiters' = 1..(Len(waiters) - 1)
        /\ \A k \in DOMAIN waiters' : waiters'[k] = waiters[IF k < i THEN k ELSE k + 1]
        /\ Queued' \subseteq Queued \ {u}
    BY <1>3, <1>5, RemoveWaiter
  <2>2. /\ f \in [DOMAIN waiters' -> DOMAIN waiters]
        /\ \A k \in DOMAIN waiters' : waiters'[k] = waiters[f[k]]
        /\ \A j, k \in DOMAIN waiters' : j < k => f[j] < f[k]
    BY <2>1
  <2> HIDE DEF f
  <2>3. Live' \subseteq Live /\ Before' = Before \cap (Live' \X Live')
    BY <2>1, <2>2, <1>1, <1>3, QueueStays
  <2>4. ASSUME NEW w \in Live \ {u} PROVE w \in Live'
    <3>1. PICK j \in DOMAIN waiters : waiters[j] = w
      BY DEF Live, Queued
    <3>2. j # i
      BY <3>1, <1>5
    <3>3. CASE j < i
      <4>1. j \in DOMAIN waiters' /\ waiters'[j] = w
        BY <3>1, <3>3, <2>1
      <4> QED BY <4>1, <1>1 DEF Live, Queued, Open
    <3>4. CASE ~(j < i)
      <4>1. /\ j - 1 \in DOMAIN waiters' /\ ~(j - 1 < i) /\ (j - 1) + 1 = j
        BY <3>2, <3>4, <2>1
      <4>2. waiters'[j - 1] = w
        BY <4>1, <3>1, <2>1
      <4> QED BY <4>1, <4>2, <1>1 DEF Live, Queued, Open
    <3> QED BY <3>3, <3>4
  <2>5. Live' = Live \ {u}
    BY <2>1, <2>3, <2>4 DEF Live
  <2> QED BY <1>2, <2>3, <2>5 DEF Promise!GiveUp, Promise!Stay, Taken
<1> QED BY <1>1, <1>4, <1>5 DEF LeaveQueue

\* The waiters of a loop that closes go together.
LEMMA LoopGivesUp ==
  ASSUME Inv, NEW l \in Loops, CloseLoop(l)
  PROVE  Promise!GiveUp({u \in Users : LoopOf[u] = l})
<1>1. /\ UNCHANGED <<available, waiters, granted, at>> /\ closed' = closed \cup {l}
  BY DEF CloseLoop
<1>2. Holding' \cup granted' = Taken
  BY <1>1 DEF Taken, Holding
<1>3. Live' = Live \ {u \in Users : LoopOf[u] = l}
  BY <1>1, OnlyWaitersQueue DEF Inv, Live, Queued, Open
<1>4. Before' = Before \cap (Live' \X Live')
  BY <1>1, <1>3 DEF Before
<1> QED BY <1>2, <1>3, <1>4 DEF Promise!GiveUp, Promise!Stay, Taken

\* The rest is not seen: a grant that is picked up, a waiter that is about to
\* leave, a new loop, whose thread has no task that waits.
LEMMA NotSeen ==
  ASSUME Inv, \/ \E u \in Users : Resume(u) \/ StopWaiting(u)
              \/ \E l \in Loops : NewLoop(l)
              \/ UNCHANGED vars
  PROVE  UNCHANGED <<Holding \cup granted, Live, Before>>
<1>1. ASSUME NEW u \in Users, Resume(u) PROVE UNCHANGED <<Holding \cup granted, Live, Before>>
  <2>1. Holding' \cup granted' = Holding \cup granted
    BY <1>1 DEF Inv, Resume, GoTo, Holding, TypeOK
  <2> QED BY <1>1, <2>1 DEF Resume, Live, Before, Queued, Open
<1>2. ASSUME NEW u \in Users, StopWaiting(u) PROVE UNCHANGED <<Holding \cup granted, Live, Before>>
  <2>1. Holding' \cup granted' = Holding \cup granted
    BY <1>2 DEF Inv, StopWaiting, GoTo, Holding, TypeOK
  <2> QED BY <1>2, <2>1 DEF StopWaiting, Live, Before, Queued, Open
<1>3. ASSUME NEW l \in Loops, NewLoop(l) PROVE UNCHANGED <<Holding \cup granted, Live, Before>>
  <2>1. /\ UNCHANGED <<available, waiters, granted, at>> /\ closed' = closed \ {l}
        /\ \A u \in Users : LoopOf[u] = l => at[u] = "idle"
    BY <1>3 DEF NewLoop
  <2>2. \A u \in Queued : u \in Users /\ at[u] \in {"waiting", "leaving"}
    BY OnlyWaitersQueue DEF Inv
  <2>3. \A u \in Queued : LoopOf[u] # l
    BY <2>1, <2>2
  <2>4. Live' = Live
    BY <2>1, <2>3 DEF Live, Queued, Open
  <2> QED BY <2>1, <2>4 DEF Holding, Before
<1>4. ASSUME UNCHANGED vars PROVE UNCHANGED <<Holding \cup granted, Live, Before>>
  BY <1>4 DEF vars, Holding, Live, Before, Queued, Open
<1> QED BY <1>1, <1>2, <1>3, <1>4

\* A new limit is a new limit of the promise, ...
LEMMA PromiseInit == Init => Promise!Init
<1> SUFFICES ASSUME Init PROVE Promise!Init
  OBVIOUS
<1>1. Holding \cup granted = {} /\ Live = {}
  BY DEF Init, Holding, Live, Queued
<1>2. Before = {}
  BY <1>1 DEF Before
<1> QED BY <1>1, <1>2 DEF Promise!Init

\* ... and every section under the lock is one step of the promise, or none.
LEMMA PromiseStep ==
  Inv /\ [Next]_vars => [Promise!Next]_<<Holding \cup granted, Live, Before>>
<1> SUFFICES ASSUME Inv, [Next]_vars
             PROVE  Promise!Next \/ UNCHANGED <<Holding \cup granted, Live, Before>>
  OBVIOUS
<1>1. ASSUME NEW u \in Users, Acquire(u) PROVE Promise!Next
  BY <1>1, Comes DEF Promise!Next
<1>2. ASSUME NEW u \in Users, Release(u) PROVE Promise!Next
  <2>1. Promise!Leave(u)
    BY <1>2, HandsOver DEF Release
  <2> QED BY <2>1 DEF Promise!Next
<1>3. ASSUME NEW u \in Users, Abandon(u), u \in granted PROVE Promise!Next
  <2>1. Promise!Leave(u)
    BY <1>3, HandsOver DEF Abandon
  <2> QED BY <2>1 DEF Promise!Next
<1>4. ASSUME NEW u \in Users, Abandon(u), u \notin granted PROVE Promise!Next
  <2>1. Promise!GiveUp({u})
    BY <1>4, GivesUp
  <2>2. {u} \in SUBSET Users
    OBVIOUS
  <2> QED BY <2>1, <2>2 DEF Promise!Next
<1>5. ASSUME NEW l \in Loops, CloseLoop(l) PROVE Promise!Next
  <2>1. Promise!GiveUp({u \in Users : LoopOf[u] = l})
    BY <1>5, LoopGivesUp
  <2>2. {u \in Users : LoopOf[u] = l} \in SUBSET Users
    OBVIOUS
  <2> QED BY <2>1, <2>2 DEF Promise!Next
<1> QED BY <1>1, <1>2, <1>3, <1>4, <1>5, NotSeen DEF Next

\* The detailed semaphore implements FifoLimit: a permit goes to those who
\* come first, and never past a waiter whose loop is open, whoever is
\* cancelled, times out or dies with its loop.
THEOREM KeepsItsPromise == Spec => KeepsPromise
BY InitInv, NextInv, PromiseInit, PromiseStep, PTL DEF Spec, KeepsPromise, Promise!Spec

=============================================================================
