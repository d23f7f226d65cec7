---------------------------- MODULE MCRenderJobs ----------------------------
(* Small instances of RenderJobs for TLC. *)
EXTENDS RenderJobs, TLC

\* Request threads are interchangeable, and so are versions.
Interchangeable == Permutations(Requests) \cup Permutations(Versions)

OneOf(S) == {CHOOSE x \in S : TRUE}

\* Two requests and two versions against one worker that crashes and stops but
\* never outlives its lease.
Steady(limit, attempts, releases) ==
  [api |-> Requests, workers |-> OneOf(Workers), versions |-> Versions,
   limit |-> limit, attempts |-> attempts, pauses |-> FALSE,
   renders |-> MaxRenders, releases |-> releases]

\* One render and two workers that may pause: an attempt goes on beside the
\* one, or the job, that superseded it.
Pausing(attempts, releases) ==
  [api |-> OneOf(Requests), workers |-> Workers, versions |-> OneOf(Versions),
   limit |-> 1, attempts |-> attempts, pauses |-> TRUE,
   renders |-> 1, releases |-> releases]

SmallSites == {Steady(1, 2, 1), Steady(2, 1, 0), Pausing(2, 0), Pausing(1, 1)}
RaceSites == {Steady(2, 1, 0)}
=============================================================================
