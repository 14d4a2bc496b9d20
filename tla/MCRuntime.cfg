CONSTANTS
  g1 = g1
  g2 = g2
  g3 = g3
  None = None
  cA = cA
  cB = cB
  cC = cC
  cD = cD
  cX = cX
  Ctx = {cA, cB, cC, cD, cX}
  Parent <- ParentOf
  Timed = {cB}
  Custom = {cX}
  G = {g1, g2, g3}
  Deadline = {1}
  MaxSeq = 4
  MaxEvents = 1
  P = {1, 2}
  Timer = {1, 2, 3}
  When = {1, 2}
  Period = {0, 2}
  MaxNow = 2
SPECIFICATION RuntimeSpec
SYMMETRY Symmetry
INVARIANTS
  FDInv
  NoThrow
  WokenInTime
  TimersInv
  ContextInv
PROPERTY TimerSpec
CHECK_DEADLOCK FALSE
