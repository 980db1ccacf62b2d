CONSTANTS
  t1 = t1
  t2 = t2
  t3 = t3
  NoThread = NoThread
  Threads = {t1,t2,t3}
  MaxSlots = 3
  CleanupDelta = 0
  Locked = FALSE
  MaxDepth = 1
  MaxTime = 1
SYMMETRY Symmetry
SPECIFICATION Spec
INVARIANT TypeOK IndexInBounds UniqueSlot
