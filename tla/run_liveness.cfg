SPECIFICATION FairSpec
CONSTANTS
  Attachers = {a1}
  Promoters = {}
  ExitCodes <- MCFewExitCodes
  MaxHooks = 2
  HookOutput <- MCPlainOutput
  Faults <- MCLiveFaults
PROPERTIES
  DetachedRunEnds
  ExitedOrphanResolved
  TerminalRunReleased
CHECK_DEADLOCK FALSE
