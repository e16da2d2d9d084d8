CONSTANTS
  NumFiles = 2
  Chunks <- EmptyBehind
  LowMark = 0
  HighMark = 1
  MaxLowEvents = 1
  Buttons <- StartOnly
  Faults = {"hash", "read"}
  MaxReaders = 2
  MaxQueued = 3
  RFaults = {"verify"}
SPECIFICATION FairSpec
INVARIANTS
  NothingLost
  CompletedArrives
PROPERTIES
  SenderEnds
  ReceiverDecides
CHECK_DEADLOCK FALSE
