SPECIFICATION SequentialSpec
CONSTANTS
  Attachers = {a1}
  Promoters = {p1}
  ExitCodes <- MCExitCodes
  MaxHooks = 1
  HookOutput <- MCAllHookOutput
  Faults <- MCAllFaults
INVARIANTS
  TypeOK
  IndexNeverDisagrees
  FlagMatchesTimeout
  SuccessIsComplete
  PromotedAgentIsGone
PROPERTY
  RefinesRunRecord
CHECK_DEADLOCK FALSE
