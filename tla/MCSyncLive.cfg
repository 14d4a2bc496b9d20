CONSTANTS
  g1 = g1
  g2 = g2
  g3 = g3
  None = None
  cA = cA
  cB = cB
  cC = cC
  G = {g1, g2, g3}
  MaxReaders = 4
  MaxTasks = 2
  Mod = 8
  Timely = TRUE
  MaxActive = 2
  CtxUsers = {g1, g2}
  Primitives = {"RWMutex", "WaitGroup", "Cond", "contexts"}
SPECIFICATION SyncFairSpec
PROPERTIES
  WriterServed
  ReaderServed
  WaitReturns
  NotifiedReturns
  Propagates
CHECK_DEADLOCK FALSE
