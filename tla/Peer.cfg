CONSTANTS
  MaxSize = 2
  MaxRequests = 9
  MaxOther = 1
SPECIFICATION FairPeerSpec
INVARIANTS
  PeerTypeOK
  AnswersCurrent
  PeerInv
PROPERTIES
  ImplementsService
  CallsEnd
CHECK_DEADLOCK FALSE
