CONSTANTS
  t1 = t1
  t2 = t2
  p1 = p1
  p2 = p2
  m = m
  NoThread = NoThread
  NoFile = NoFile
  Threads = {t1, t2}
  Paths = {p1, p2}
  Masks = {m}
  EmptyMask = EmptyMask
  All = All
  Lengths = {1, 3}
  InitialSize = 2
  Increment = 1
  SizeLimit = 4
  WArgs = FALSE
  MaxCalls = 2
  MaxChanges = 2
SPECIFICATION FairSpec
INVARIANT TypeOK WholeLines OnDiskWhenFree OpenWhileWriting
PROPERTY LogsAtomically MutexFreed
