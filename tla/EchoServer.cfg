CONSTANTS
  Threads = {m, w1, w2}
  Main = m
  Items = {4, 5, 6, 7, 8}
  NoItem = NoItem
  N = 2
  MaxLine = 1
  MaxConns = 6
  MaxBytes = 2
CHECK_DEADLOCK FALSE
SPECIFICATION FairSpec
INVARIANTS
  TypeOK
  OneHolder
  EchoesToSender
  CountExact
  DescriptorsSuffice
PROPERTIES
  ImplementsQueue
  NoIdleWorker
