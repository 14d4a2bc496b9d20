CONSTANTS
  g1 = g1
  g2 = g2
  g3 = g3
  m = m
  None = None
  G = {g1, g2, g3}
  Addr = {m}
  MaxVal = 1
  ActiveSpin = 0
SPECIFICATION FairSpec
PROPERTIES
  MutexSpec
  Progress
