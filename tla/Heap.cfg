CONSTANTS
  MaxHeap = 20
  NumLists = 3
  Requests = {0, 1, 3, 4, 7}
  MaxLive = 3
SPECIFICATION Spec
INVARIANTS
  TypeOK
  HeapConsistent
  FreeListsExact
  PayloadsIntact
  NoLeak
PROPERTIES
  BestFit
