CONSTANTS
  MaxInflight = 2
  MidSpace = 8
  Qos = {1, 2}
  CleanSession = FALSE
  LateSend = FALSE
  MaxPublishes = 3
  MaxLoss = 2
  WireCap = 1
SPECIFICATION FairSpec
INVARIANTS
  TypeOK
  InflightWindow
  PubrecNeverFatal
  ResentIsMarked
  ExactlyOnce
PROPERTIES
  ImplementsService
  EventuallyReported
