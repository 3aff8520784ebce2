SPECIFICATION Spec
CONSTANTS
  Threads = {t1, t2, t3}
  Nil = Nil
  MaxSpin = 1
  Spurious = TRUE
SYMMETRY Symmetry
INVARIANTS
  TypeOK
  MutualExclusion
  AssertsHold
  QueueWellFormed
  NoUseAfterScope
PROPERTY ImplementsFifoLock
