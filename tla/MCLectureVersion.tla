-------------------------- MODULE MCLectureVersion --------------------------
(* Small instances of LectureVersion for TLC. *)
EXTENDS LectureVersion, TLC

\* Request threads are interchangeable.
Interchangeable == Permutations(Requests)
=============================================================================
