SPECIFICATION FairSpec
CONSTANTS
  WorkerThreads = {w1, w2}
  Clients = {main}
  Main = main
  LocalCapacity = 1
  MaxJobs = 3
INVARIANT TypeOK
PROPERTIES
  JobsTaken
  WaitsEnd
  ShutdownEnds
