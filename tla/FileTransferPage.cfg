CONSTANTS
  NumFiles = 2
  Chunks <- TwoFiles
  LowMark = 0
  HighMark = 1
  MaxLowEvents = 1
  Buttons <- ResumingPage
  Faults = {"hash", "read"}
  MaxReaders = 1
  MaxQueued = 2
  RFaults = {"verify"}
SPECIFICATION Spec
INVARIANTS
  PumpRuns
  IndicesIncrease
  SlicesLag
  MetadataFirst
  CompletedWasSent
PROPERTIES
  CancelledIsQuiet
  ReceiverCancelSticks
  ImplementsDelivery
CHECK_DEADLOCK FALSE
