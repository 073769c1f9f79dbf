SPECIFICATION FairSpec
CONSTANTS
  Configs <- AllConfigs
  MaxFrames = 2
INVARIANTS
  TypeOK
  RequestsSuitTheServer
  RequestIdsUnique
  OkEndsARun
  ExitStatusIsTrue
  ConfigIsSafe
PROPERTIES
  ShutdownReturns
  ClosedConnectionEndsTheRun
  CancellationStopsMining
