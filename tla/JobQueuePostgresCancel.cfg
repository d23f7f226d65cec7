CONSTANTS
  Workers = {w1}
  Reapers = {w1}
  Hosts = {h1}
  HostOf <- OneHost
  Versions = {v1}
  Renders = {}
  JobKinds = {"generate_lecture"}
  MaxJobs = 1
  JobMaxAttempts = 2
  MaxBoots = 0
  ReadCommitted = TRUE
  NoVersion = NoVersion
  NoRender = NoRender
SPECIFICATION Spec
SYMMETRY Interchangeable
INVARIANTS
  PendingCancelWins
CHECK_DEADLOCK FALSE
