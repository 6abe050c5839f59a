CONSTANTS
  Threads = {t1, t2}
  Keys = {k1, k2, k3}
  NoKey = NoKey
  NumObjects = 2
  MaxObject = 1
  MaxLen = 2
  MaxClock = 1
SPECIFICATION FairSpec
INVARIANTS
  ReaderFirst
  OneEntryPerKey
  HitIsAnswer
  EntriesWhole
  RemoteClosed
  LockHeld
PROPERTIES
  ImplementsLock
  LookupsGoOn
