SPECIFICATION Spec
CONSTANTS
  Attachers = {a1}
  Promoters = {}
  ExitCodes <- MCFewExitCodes
  MaxHooks = 0
  HookOutput <- MCPlainOutput
  Faults <- MCNoFaults
INVARIANT
  WorkingRunIsLive
CHECK_DEADLOCK FALSE
