CONSTANTS
  t1 = t1
  t2 = t2
  NoThread = NoThread
  Threads = {t1,t2}
  MaxSlots = 3
  CleanupDelta = 1
  Locked = FALSE
  MaxDepth = 1
  MaxTime = 0
SPECIFICATION Spec
INVARIANT OwnSlot
