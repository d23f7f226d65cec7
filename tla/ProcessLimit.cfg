CONSTANTS
  t1 = t1
  t2 = t2
  t3 = t3
  thread = thread
  l1 = l1
  l2 = l2
  Users = {t1, t2, t3, thread}
  Loops = {l1, l2}
  NoLoop = NoLoop
  LoopOf <- TwoLoops
  Size = 2
SPECIFICATION FairSpec
INVARIANTS
  TypeOK
  PermitsConserved
  NoIdlePermit
PROPERTIES
  KeepsPromise
  WaitersServed
