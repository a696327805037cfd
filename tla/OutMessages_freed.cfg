CONSTANTS
  MaxInflight = 2
  MidSpace = 8
  Qos = {1}
  CleanSession = FALSE
  LateSend = TRUE
  MaxPublishes = 2
  MaxLoss = 1
  WireCap = 1
SPECIFICATION Spec
INVARIANTS
  SendsLiveMessage
