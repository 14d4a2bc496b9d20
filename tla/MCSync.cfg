CONSTANTS
  g1 = g1
  g2 = g2
  g3 = g3
  g4 = g4
  None = None
  cA = cA
  cB = cB
  cC = cC
  G = {g1, g2, g3, g4}
  MaxReaders = 5
  MaxTasks = 3
  Mod = 10
  Timely = TRUE
  MaxActive = 3
  CtxUsers = {}
  Primitives = {"RWMutex", "Once", "WaitGroup", "Cond"}
SPECIFICATION SyncSpec
SYMMETRY Symmetry
INVARIANTS
  Exclusion
  RWInv
  CalledOnce
  SleepersCounted
  CondInv
PROPERTIES
  WaitsForZero
  NotifiersDoTheirJob
  NotifyListSpec
CHECK_DEADLOCK FALSE
