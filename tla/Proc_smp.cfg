SPECIFICATION Spec
CONSTANTS
  CPU = {c1, c2}
  NPROC = 3
  MAXPID = 3
  MAXKILL = 1
  NoCPU = NoCPU
SYMMETRY Symmetry
INVARIANTS SwitchesSafely NoLostExit FamilyConsistent
