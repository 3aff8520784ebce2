SPECIFICATION WaitingSpec
CONSTANTS
  Consumers = {c1, c2}
  Producers = {p1, p2, p3}
  Nil = Nil
  Lockers = {t1, t2, t3}
INVARIANTS
  WaitersFlagged
PROPERTIES
  SleeperIsWoken
  EveryoneServed
