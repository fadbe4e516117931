CONSTANTS
  Conns = {c1, c2}
  None = None
  MaxDelay = 2
  StartTimeout = 3
  StopTimeout = 16
  ClientCycle = 3
SPECIFICATION FairSpec
INVARIANT TypeOK
INVARIANT ClientFindsServer
INVARIANT MessageArrives
INVARIANT OnlyStrandedClient
PROPERTY ClientAnswered
PROPERTY ImplementsServer
