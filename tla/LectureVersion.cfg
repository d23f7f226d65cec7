CONSTANTS
  Requests = {"q1", "q2"}
  MaxJobs = 3
  JobMaxAttempts = 2
  MaxRevision = 3
  Edits = {0, 1}
  Asks = {"source", "plan"}
SPECIFICATION FairSpec
INVARIANTS
  ApprovedPlanIsWritten
  ScriptOnce
  OwnWriteResumes
  RenderIsCurrent
PROPERTIES
  NoLostEdit
  ProgressEnds
CHECK_DEADLOCK FALSE
