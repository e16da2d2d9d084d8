CONSTANTS
  NumFiles = 1
  Chunks <- OneFile
  LowMark = 0
  HighMark = 1
  MaxLowEvents = 1
  Buttons <- SendPage
  Faults = {}
  MaxReaders = 1
  MaxQueued = 2
  RFaults = {}
SPECIFICATION PatientSpec
PROPERTIES
  PausedResumes
CHECK_DEADLOCK FALSE
