SPECIFICATION FairSpec
CONSTANTS
  Proc = {p1, p2}
  Block = {b1, b2, b3}
  Val = {v1, v2}
  LOGSIZE = 4
  MAXOPBLOCKS = 2
  OPBLOCKS = 1
  NLOG = 4
INVARIANTS LogInv NeverTooBig
PROPERTIES CrashAtomic SleeperWoken
