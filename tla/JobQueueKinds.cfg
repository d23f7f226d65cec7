CONSTANTS
  Workers = {w1}
  Reapers = {w1}
  Hosts = {h1}
  HostOf <- OneHost
  Versions = {v1}
  Renders = {r1}
  JobKinds = {"build_assets", "render_video", "cleanup"}
  MaxJobs = 2
  JobMaxAttempts = 1
  MaxBoots = 1
  ReadCommitted = FALSE
  NoVersion = NoVersion
  NoRender = NoRender
SPECIFICATION FairSpec
PROPERTIES
  JobsEnd
CHECK_DEADLOCK FALSE
