SPECIFICATION FairSpec
CONSTANTS
  CPU = {c1, c2}
  NPROC = 2
  MAXPID = 3
  MAXKILL = 0
  NoCPU = NoCPU
PROPERTIES EventuallyRuns InitReaps
