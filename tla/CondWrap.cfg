CONSTANTS
  g1 = g1
  g2 = g2
  g3 = g3
  None = None
  G = {g1, g2, g3}
  Mod = 8
  Timely = FALSE
SPECIFICATION CondSpec
INVARIANT NotifiedDontPark
CHECK_DEADLOCK FALSE
