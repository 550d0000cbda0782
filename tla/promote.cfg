SPECIFICATION Spec
CONSTANTS
  Promotes = {p1, p2}
  Branches = {b1, b2}
  MaxFailures = 1
  Faults <- MCAllFaults
INVARIANTS
  TypeOK
  PairAllOrNothing
  ReportIsTrue
  NothingLeftBehind
PROPERTY ImplementsPublication
SYMMETRY MCSymmetry
CHECK_DEADLOCK FALSE
