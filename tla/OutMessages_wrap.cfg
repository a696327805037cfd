CONSTANTS
  MaxInflight = 0
  MidSpace = 2
  Qos = {1, 2}
  CleanSession = FALSE
  LateSend = FALSE
  MaxPublishes = 3
  MaxLoss = 1
  WireCap = 1
SPECIFICATION Spec
INVARIANTS
  ReportedAfterDelivery
