CONSTANTS
  t1 = t1
  t2 = t2
  NoThread = NoThread
  Threads = {t1,t2}
  MaxSlots = 2
  CleanupDelta = 0
  Locked = TRUE
  MaxDepth = 1
  MaxTime = 1
SPECIFICATION Spec
PROPERTY FailsOnlyWhenFull
