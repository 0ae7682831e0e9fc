\* One builder in full, another of the three that use the counter at the same time,
\* a lost frame and a spurious wake-up.
SPECIFICATION FairSpec
CONSTANTS
  ours = ours
  Builders <- OneBuilder
  MaxCalls = 2
  MaxOther = 1
  FirstID = 1
  MaxWire = 1
  MaxFaults = 1
  MaxSpurious = 1
  Traffic <- AllTraffic
INVARIANTS NoLostNotify AnswerBelongs
PROPERTIES CallReturns DestructorEnds
CHECK_DEADLOCK FALSE
