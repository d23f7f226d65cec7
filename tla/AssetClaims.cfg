SPECIFICATION FairSpec
CONSTANTS
  j1 = j1
  j2 = j2
  Jobs = {j1, j2}
  Attempts <- TwoOne
  Confirmed = {j2}
  None = None
  MaxTrouble = 1
INVARIANTS
  OneProducer
  PaidOncePerJob
  InheritedIsResumed
  ChargedOnce
  ChargeReported
PROPERTIES
  CallsEnd
CHECK_DEADLOCK FALSE

