CONSTANTS
  t1 = t1
  t2 = t2
  p1 = p1
  m = m
  NoThread = NoThread
  NoFile = NoFile
  Threads = {t1, t2}
  Paths = {p1}
  Masks = {m}
  EmptyMask = EmptyMask
  All = All
  Lengths = {1, 3}
  InitialSize = 2
  Increment = 1
  SizeLimit = 4
  WArgs = TRUE
  MaxCalls = 2
  MaxChanges = 1
SPECIFICATION Spec
INVARIANT LinesNotMixed
