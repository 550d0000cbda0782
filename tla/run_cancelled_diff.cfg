SPECIFICATION SequentialSpec
CONSTANTS
  Attachers = {}
  Promoters = {}
  ExitCodes <- MCFewExitCodes
  MaxHooks = 0
  HookOutput <- MCPlainOutput
  Faults <- MCOnlySignal
INVARIANT
  CancelledRunKeepsDiff
CHECK_DEADLOCK FALSE
