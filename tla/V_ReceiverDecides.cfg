CONSTANTS
  NumFiles = 2
  Chunks <- TwoFiles
  LowMark = 0
  HighMark = 1
  MaxLowEvents = 1
  Buttons <- StartOnly
  Faults = {}
  MaxReaders = 2
  MaxQueued = 3
  RFaults = {}
SPECIFICATION FairSpec
PROPERTIES
  ReceiverDecides
CHECK_DEADLOCK FALSE
