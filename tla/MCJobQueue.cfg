SPECIFICATION FairSpec
CONSTANTS
  Jobs = {j1, j2, j3}
  NoJob = NoJob
  Owner = owner
  Thieves = {t1, t2}
  MaxCount = 2
  Free = Free
  Taken = Taken
  Spurious = FALSE
  MaxPushes = 4
INVARIANTS
  RingShape
PROPERTIES
  ImplementsDeque
  StealReturns
