\* A server that writes whole messages or pieces and may stop at any of them.
SPECIFICATION FairSpec
CONSTANTS
  BodyPieces = 3
  MaxMessages = 3
  OutCap = 14
  Chunks = 2
  InCap = 1
  MaxSends = 2
  ContentRetries = 6
  ReadRetries = 3
INVARIANT DeliveredInOrder
PROPERTIES AllDelivered SendEnds
CHECK_DEADLOCK FALSE
