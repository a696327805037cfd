CONSTANTS
  MidSpace = 3
  Qos = {0, 1, 2}
  Sessions = {TRUE, FALSE}
  MaxMessages = 3
  MaxLoss = 2
  WireCap = 1
SPECIFICATION FairSpec
INVARIANTS
  TypeOK
  CompletedWasReceived
  ReceivedInOrder
  ReceivedOnceIfSentOnce
PROPERTIES
  EventuallyReceived
