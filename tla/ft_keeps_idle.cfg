CONSTANTS
  t1 = t1
  t2 = t2
  t3 = t3
  NoThread = NoThread
  Threads = {t1,t2,t3}
  MaxSlots = 3
  CleanupDelta = 0
  Locked = TRUE
  MaxDepth = 1
  MaxTime = 2
SYMMETRY Symmetry
SPECIFICATION HSpec
PROPERTY AllIdleCollected
