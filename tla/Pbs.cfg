SPECIFICATION Spec
CONSTANTS
  Systems <- AllSystems
INVARIANTS DispatchConsistent SelectsBest NoLockCycle
CHECK_DEADLOCK FALSE
