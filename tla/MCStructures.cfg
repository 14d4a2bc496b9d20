CONSTANTS
  s1 = s1
  s2 = s2
  s3 = s3
  s4 = s4
  Nil = Nil
  Sudog = {s1, s2, s3, s4}
  Addr = {1, 2, 3, 4}
  Tickets = {1, 3, 5}
  NCases = 5
  Keys = {0, 1, 2, 3}
SPECIFICATION StructuresSpec
SYMMETRY Symmetry
INVARIANTS
  TreapInv
  LocksInOrder
PROPERTY SemaQueueSpec
