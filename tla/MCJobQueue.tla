----------------------------- MODULE MCJobQueue -----------------------------
(* Small instances of JobQueue for TLC. *)
EXTENDS JobQueue, TLC

\* Every worker process runs on the same machine.
OneHost == [w \in Workers |-> CHOOSE h \in Hosts : TRUE]

\* Worker processes on one host are interchangeable, and so are versions.
Interchangeable == Permutations(Workers) \cup Permutations(Versions)
=============================================================================
