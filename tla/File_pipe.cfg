SPECIFICATION Spec
CONSTANTS
  P = {p1, p2}
  Pipes = {a}
  Files = {f1, f2}
  Byte = {x, y}
  NOFILE = 2
  PIPESIZE = 2
  UINT = 4
  MAXN = 2
  Nil = Nil
SYMMETRY Symmetry
INVARIANTS ReferencesExact SleepersHaveReason
PROPERTIES BytesInOrder
CHECK_DEADLOCK FALSE
