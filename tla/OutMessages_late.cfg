CONSTANTS
  MaxInflight = 1
  MidSpace = 8
  Qos = {0, 1, 2}
  CleanSession = TRUE
  LateSend = TRUE
  MaxPublishes = 4
  MaxLoss = 1
  WireCap = 1
SPECIFICATION Spec
INVARIANTS
  InflightWindow
  DeliveredInOrder
