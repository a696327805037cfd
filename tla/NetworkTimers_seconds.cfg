CONSTANTS
  KeepAlive = 3
  Delays = {0, 2}
  DelayMax = 3
  ConnectMax = 3
  RetryCap = 3
SPECIFICATION Spec
INVARIANTS
  TypeOK
  SilenceBounded
  DeadPeerClosed
  StopBounded
PROPERTIES
  TimersWaitForAnswer
  LossReported
