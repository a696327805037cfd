CONSTANTS
  MidSpace = 3
  Qos = {1, 2}
  Sessions = {FALSE}
  MaxMessages = 2
  MaxLoss = 1
  WireCap = 1
SPECIFICATION Spec
INVARIANTS
  ReceivedOnce
