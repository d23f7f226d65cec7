CONSTANTS
  Requests = {q1}
  MaxJobs = 3
  JobMaxAttempts = 2
  MaxRevision = 3
  Edits = {0, 1}
  Asks = {"source", "plan"}
SPECIFICATION Spec
INVARIANTS
  RetryGoesOn
CHECK_DEADLOCK FALSE
