CONSTANTS
  Requests = {q1, q2}
  Workers = {w1, w2}
  Versions = {v1, v2}
  MaxRenders = 2
  MaxJobs = 2
  SingleWriter = FALSE
  Retries = TRUE
  Sites <- SmallSites
SPECIFICATION FairSpec
INVARIANTS
  AdmissionLimit
  RendersSettled
  ActiveCanRender
  SucceededHasVideo
  StartsExclude
PROPERTIES
  FinalRendersStay
  RendersEnd
CHECK_DEADLOCK FALSE
