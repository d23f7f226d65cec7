CONSTANTS
  u1 = u1
  u2 = u2
  Usages = {u1, u2}
  MaxEvents = 2
  MaxPending = 1
  LateTries = 2
  MaxFailures = 1
SPECIFICATION FairSpec
INVARIANTS
  UsageAccounted
  BilledOnce
  CostIsUsage
  EventsInOrder
PROPERTIES
  UsageWritten
CHECK_DEADLOCK FALSE
