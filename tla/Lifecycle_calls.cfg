CONSTANTS
  Configs <- MCAll
  MaxCalls = 4
  MaxLoss = 2
SPECIFICATION FairSpec
INVARIANTS
  TypeOK
  ConnectedOrReporting
  CleanupFindsNoThread
  SuccessIsRequested
PROPERTIES
  EventuallyConnected
  DisconnectCompletesWithoutReconnect
