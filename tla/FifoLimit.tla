----------------------------- MODULE FifoLimit -----------------------------
(***************************************************************************)
(* What a process-wide limit (aadhi/jobs/limits.py) promises: at most Size *)
(* users at a time, first come, first served, and a free place is never    *)
(* left empty while somebody waits.                                        *)
(***************************************************************************)
EXTENDS Naturals, FiniteSets

CONSTANTS Users, Size

VARIABLES
  holders,  \* who has a permit
  waiting,  \* who waits
  ahead     \* <<u, v>>: both wait, and u came before v

Full == Cardinality(holders) = Size
First(u) == u \in waiting /\ \A v \in waiting \ {u} : <<u, v>> \in ahead

Init == holders = {} /\ waiting = {} /\ ahead = {}

\* Only those in left go on waiting, in the order they had.
Stay(left) == waiting' = left /\ ahead' = ahead \cap (left \X left)

Come(u) ==
  /\ u \notin holders \cup waiting
  /\ IF Full
     THEN /\ waiting' = waiting \cup {u}
          /\ ahead' = ahead \cup (waiting \X {u})
          /\ UNCHANGED holders
     ELSE holders' = holders \cup {u} /\ UNCHANGED <<waiting, ahead>>

\* A permit that is returned goes to the first waiter.
Leave(u) ==
  /\ u \in holders
  /\ \/ /\ waiting = {}
        /\ holders' = holders \ {u}
        /\ UNCHANGED <<waiting, ahead>>
     \/ \E v \in Users : /\ First(v)
                         /\ holders' = (holders \ {u}) \cup {v}
                         /\ Stay(waiting \ {v})

\* Waiters stop waiting: a cancellation, a timeout, the end of their loop.
GiveUp(gone) == Stay(waiting \ gone) /\ UNCHANGED holders

Next ==
  \/ \E u \in Users : Come(u) \/ Leave(u)
  \/ \E gone \in SUBSET Users : GiveUp(gone)

Spec == Init /\ [][Next]_<<holders, waiting, ahead>>
=============================================================================
