CONSTANTS
  Threads = {t1, t2}
  Keys = {k1, k2, k3}
  NoKey = NoKey
  NumObjects = 2
  MaxObject = 0
  MaxLen = 0
  MaxClock = 3
SPECIFICATION FairSpec
PROPERTY EvictsLRU
