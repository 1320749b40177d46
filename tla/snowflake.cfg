SPECIFICATION FairSpec
CONSTANTS
  Thread = {t1, t2}
  MaxSequence = 1
  Weight = 4
  Node = 2
  Modulus = 13
  Window = 2
  MaxClock = 5
  MaxCalls = 5
  MaxSetBacks = 1
  MaxCrashes = 1
INVARIANTS StampsIncrease DistinctWithinWindow
PROPERTY EveryCallReturns
