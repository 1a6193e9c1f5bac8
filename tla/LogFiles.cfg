SPECIFICATION Spec
CONSTANTS
  Utc <- MCUtc
  Unset <- MCUnset
  NoFile = NoFile
  LOG_SEG_INTERVAL = 2
  MAX_BUFFER_SIZE = 2
  MaxSamples = 3
  MaxFaults = 1
CHECK_DEADLOCK FALSE
INVARIANTS TypeOK RowsOnceInOrder
PROPERTIES ClosedFilesKept SegmentsBounded RowsInTheirDay NoHandleAcrossRemount ClosesWhenDisabled
