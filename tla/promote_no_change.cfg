SPECIFICATION Spec
CONSTANTS
  Promotes = {p1}
  Branches = {b1}
  MaxFailures = 0
  Faults <- MCNoFaults
INVARIANT
  NoChangeNoBranch
CHECK_DEADLOCK FALSE
