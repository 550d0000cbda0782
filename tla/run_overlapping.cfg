SPECIFICATION Spec
CONSTANTS
  Attachers = {}
  Promoters = {p1}
  ExitCodes <- MCSomeExitCodes
  MaxHooks = 1
  HookOutput <- MCAllHookOutput
  Faults <- MCNoGitFaults
INVARIANTS
  SuccessNeedsExitZero
  TimeoutNeedsFlag
  SignalledOutcomeHasCause
PROPERTY
  NeverRunsAgain
CHECK_DEADLOCK FALSE
