SPECIFICATION Spec
CONSTANTS
  Space = {s1, s2}
  Frame = {f1, f2, f3}
  NPAGES = 2
  PGSIZE = 2
  Segments <- TextAndData
  Value = {z, a}
  Zero = z
  Img = a
  Junk = Junk
  NoFrame = NoFrame
  NoSpace = NoSpace
  NoData = NoData
SYMMETRY Symmetry
INVARIANT MemoryConsistent
PROPERTY Isolation
CHECK_DEADLOCK FALSE
