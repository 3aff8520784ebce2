SPECIFICATION Spec
CONSTANTS
  Threads = {t1, t2, t3}
  Nil = Nil
  PerChunk = 2
  ChunkCounts = {2}
  MaxAcquires <- TwoCalls
  t1 = t1
  t2 = t2
  t3 = t3
INVARIANT NoNodeLost
