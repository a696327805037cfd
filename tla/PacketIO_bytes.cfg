CONSTANTS
  Base = 2
  MaxDigits = 2
  Connect <- MCConnect
  Disconnect <- MCDisconnect
  Reply <- MCReply
  Answered = {1}
  Requests <- MCRequests
  Incoming <- MCIncoming
  PairCap = 1
  MaxRequests = 1
  MaxIncoming = 2
  MaxLoss = 1
SPECIFICATION FairSpec
INVARIANTS
  TypeOK
  StreamFramed
PROPERTIES
  ImplementsChannel
  EventuallyWritten
  EventuallyHandled
