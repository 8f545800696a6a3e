SPECIFICATION Spec
CONSTANTS
  Proc = {p1, p2}
  Buf = {b1, b2}
  Block = {k1, k2, k3}
  Val = {v1, v2}
  Sizes = {5, 6}
  MAXPIN = 1
  NoBuf = NoBuf
  NoBlock = NoBlock
  NoProc = NoProc
SYMMETRY Symmetry
INVARIANTS CacheConsistent DriverConsistent
PROPERTIES Coherent
