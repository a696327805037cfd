CONSTANTS
  Configs <- MCRecovering
  MaxCalls = 1
  MaxLoss = 1
SPECIFICATION FairSpec
PROPERTIES
  DisconnectCompletes
