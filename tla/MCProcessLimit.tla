--------------------------- MODULE MCProcessLimit ---------------------------
(* Two event loops and a plain thread around one limit. *)
EXTENDS ProcessLimit, TLC

CONSTANTS t1, t2, t3, thread, l1, l2

TwoLoops == t1 :> l1 @@ t2 :> l1 @@ t3 :> l2 @@ thread :> NoLoop
=============================================================================
