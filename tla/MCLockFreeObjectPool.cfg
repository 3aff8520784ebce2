SPECIFICATION Spec
CONSTANTS
  Threads = {t1, t2, t3}
  Nil = Nil
  PerChunk = 2
  ChunkCounts = {1, 2}
  MaxAcquires <- FewCalls
  t1 = t1
  t2 = t2
  t3 = t3
SYMMETRY Symmetry
INVARIANTS
  OnePlace
  RefsAgree
  PoppedIsSafe
