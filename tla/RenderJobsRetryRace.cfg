CONSTANTS
  Requests = {q1, q2}
  Workers = {w1}
  Versions = {v1}
  MaxRenders = 2
  MaxJobs = 3
  SingleWriter = FALSE
  Retries = TRUE
  Sites <- RaceSites
SPECIFICATION Spec
SYMMETRY Interchangeable
INVARIANTS
  OneActiveRender
CHECK_DEADLOCK FALSE
