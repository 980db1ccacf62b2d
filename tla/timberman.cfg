CONSTANTS
  t1 = t1
  t2 = t2
  p = p
  m = m
  NoThread = NoThread
  NoFile = NoFile
  Threads = {t1, t2}
  MaxSlots = 3
  CleanupDelta = 0
  Locked = TRUE
  MaxDepth = 2
  MaxTime = 1
  Paths = {p}
  Masks = {m}
  EmptyMask = EmptyMask
  All = All
  Lengths = {1}
  InitialSize = 2
  BufferIncrement = 1
  SizeLimit = 4
  WArgs = FALSE
  MaxCalls = 3
  MaxChanges = 0
  Path = p
  Mask = m
  Length = 1
SPECIFICATION FairSpec
INVARIANT LogTellsCalls StampsInOrder
PROPERTY LocksFreed
CHECK_DEADLOCK FALSE
