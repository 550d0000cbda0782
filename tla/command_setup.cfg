SPECIFICATION Spec
CONSTANTS
  Hosts <- MCHosts
  Colons <- MCColons
  BadHosts <- MCBadHosts
  Invocations <- MCFewInvocations
  RequestPool <- MCRequestPool
  MaxLogged = 1
  MaxFailures = 0
  Faults <- MCOnlySignal
INVARIANT
  FailedSetupIsUndone
CHECK_DEADLOCK FALSE
