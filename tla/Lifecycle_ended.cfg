CONSTANTS
  Configs <- MCEnding
  MaxCalls = 1
  MaxLoss = 1
SPECIFICATION FairSpec
PROPERTIES
  ReconnectConnects
