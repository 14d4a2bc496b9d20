CONSTANTS
  g1 = g1
  g2 = g2
  g3 = g3
  None = None
  Idle = Idle
  G = {g1, g2, g3}
  Size <- Sizes
  Scenarios <- AllScenarios
  Calls <- AllCalls
SPECIFICATION MCSpec
SYMMETRY Symmetry
INVARIANTS
  ChanInv
  NoLockCycle
PROPERTIES
  GivesUpRightly
  LoopEnds
  ChannelSpec
CHECK_DEADLOCK FALSE
