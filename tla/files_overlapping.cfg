SPECIFICATION Spec
CONSTANTS
  Runs = {r1}
  Reconcilers = {c1}
  Nobody = nobody
  Overlapping = TRUE
  Faults <- MCNoFaults
INVARIANT
  StatusIsWhole
CHECK_DEADLOCK FALSE
