CONSTANTS
  g1 = g1
  g2 = g2
  g3 = g3
  None = None
  k1 = k1
  k2 = k2
  v1 = v1
  v2 = v2
  owner = owner
  o1 = o1
  o2 = o2
  G = {g1, g2, g3}
  ActiveSpin = 2
  Key = {k1, k2}
  Val = {v1, v2}
  MaxEntry = 3
  Obj = {o1, o2}
  InitSize = 1
  DequeueLimit = 2
  Mod = 4
  MaxDequeues = 2
SPECIFICATION AtomicSpec
SYMMETRY Symmetry
INVARIANTS
  MutualExclusion
  IInv
  NoLostWakeup
  WaitersCounted
  MapInv
PROPERTIES
  LockerSpec
  Linearizable
  DequeSpec
