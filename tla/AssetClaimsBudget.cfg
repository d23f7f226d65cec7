SPECIFICATION Spec
CONSTANTS
  j1 = j1
  j2 = j2
  Jobs = {j1, j2}
  Attempts <- TwoOne
  Confirmed = {j2}
  None = None
  MaxTrouble = 0
PROPERTIES
  StopKeepsOperation
CHECK_DEADLOCK FALSE

