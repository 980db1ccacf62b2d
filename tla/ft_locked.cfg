CONSTANTS
  t1 = t1
  t2 = t2
  t3 = t3
  NoThread = NoThread
  Threads = {t1,t2,t3}
  MaxSlots = 4
  CleanupDelta = 0
  Locked = TRUE
  MaxDepth = 2
  MaxTime = 1
SYMMETRY Symmetry
SPECIFICATION Spec
INVARIANT OwnSlot
PROPERTY OwnerKept PrintsCallDepth
