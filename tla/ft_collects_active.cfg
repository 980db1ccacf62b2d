CONSTANTS
  t1 = t1
  t2 = t2
  NoThread = NoThread
  Threads = {t1,t2}
  MaxSlots = 2
  CleanupDelta = 1
  Locked = TRUE
  MaxDepth = 1
  MaxTime = 2
SPECIFICATION HSpec
PROPERTY OnlyIdleCollected
