CONSTANTS
  g1 = g1
  g2 = g2
  g3 = g3
  g4 = g4
  a1 = a1
  a2 = a2
  None = None
  G = {g1, g2, g3, g4}
  Addr = {a1, a2}
  MaxVal = 2
SPECIFICATION SemaSpec
SYMMETRY Symmetry
INVARIANTS
  NoMissedWakeup
  SleepersAccounted
PROPERTY SemaphoreSpec
CHECK_DEADLOCK FALSE
