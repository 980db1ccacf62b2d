CONSTANTS
  t1 = t1
  t2 = t2
  Tracers = {t1, t2}
  Size = 3
  Depths = {0, 1, 2}
SPECIFICATION Spec
INVARIANT PrintsIndentation
