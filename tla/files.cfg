SPECIFICATION Spec
CONSTANTS
  Runs = {r1, r2}
  Reconcilers = {c1, c2}
  Nobody = nobody
  Overlapping = FALSE
  Faults <- MCAllFaults
INVARIANTS
  TypeOK
  LossIsBounded
  ReconciledAgrees
  RefsAgree
PROPERTIES
  StatusKeepsRecord
  IndexIsLog
SYMMETRY MCSymmetry
CHECK_DEADLOCK FALSE
