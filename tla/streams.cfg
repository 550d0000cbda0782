SPECIFICATION Spec
CONSTANTS
  Timeout = 3
  IdleThreshold = 2
  MaxTime = 4
  Cap = 2
  Modes <- MCModes
  Writes <- MCWrites
  Timed <- MCTimed
  Faults <- MCFaults
INVARIANTS
  TypeOK
  CountsActiveTime
  LogIsWhole
  ReturnIsTrue
PROPERTIES
  ExpiryIsFinal
  RunEnds
  CommandReturns
CHECK_DEADLOCK FALSE
