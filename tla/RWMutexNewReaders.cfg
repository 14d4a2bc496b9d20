CONSTANTS
  g1 = g1
  g2 = g2
  g3 = g3
  g4 = g4
  None = None
  G = {g1, g2, g3, g4}
  MaxReaders = 5
SPECIFICATION Spec
INVARIANT NewReadersExcluded
