CONSTANTS
  g1 = g1
  g2 = g2
  g3 = g3
  None = None
  Idle = Idle
  G = {g1, g2, g3}
  Size <- Sizes
  Scenarios <- Unbuffered
  Calls <- AllCalls
SPECIFICATION MCSpec
PROPERTY SendGivesUpRightly
CHECK_DEADLOCK FALSE
