SPECIFICATION Spec
CONSTANTS
  Hosts <- MCHosts
  Colons <- MCColons
  BadHosts <- MCBadHosts
  Invocations <- MCInvocations
  RequestPool <- MCRequestPool
  MaxLogged = 2
  MaxFailures = 3
  Faults <- MCAllFaults
INVARIANTS
  TypeOK
  ProxyReleasedAtExit
  FilesReleasedAtExit
  EgressIsExact
  BadOptionsAreRefusedEarly
  TelemetryIsWhole
  ContainerIsMountable
  HostIsReadOnly
  FallsBackToBaked
CHECK_DEADLOCK FALSE
