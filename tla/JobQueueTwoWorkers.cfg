CONSTANTS
  Workers = {w1, w2}
  Reapers = {w1}
  Hosts = {h1}
  HostOf <- OneHost
  Versions = {v1}
  Renders = {}
  JobKinds = {"generate_lecture"}
  MaxJobs = 2
  JobMaxAttempts = 2
  MaxBoots = 0
  ReadCommitted = FALSE
  NoVersion = NoVersion
  NoRender = NoRender
SPECIFICATION Spec
INVARIANTS
  OneActivePerVersion
  ReviewReachable
  TransientHasJob
  PendingCancelWins
PROPERTIES
  WritesAreFenced
  EndedStaysEnded
CHECK_DEADLOCK FALSE
