SPECIFICATION FairSpec
CONSTANTS
  mutexAddress = mutexAddress
  otherAddress = otherAddress
  eParked = eParked
  eDrain = eDrain
  Parkers = {p1, p2, p3}
  Unparkers = {u1}
  Nil = Nil
  Keys <- ParkKeys
  Asked <- UnparkKeys
  MaxUnparks = 1
INVARIANTS
  BucketShape
  NoUseAfterScope
  LastMeansLast
PROPERTIES
  ImplementsParkingQueue
  ParkReturns
