SPECIFICATION KeepsLogging
CONSTANTS
  Utc <- MCUtc
  Unset <- MCUnset
  NoFile = NoFile
  LOG_SEG_INTERVAL = 1
  MAX_BUFFER_SIZE = 2
  MaxSamples = 3
  MaxFaults = 0
CHECK_DEADLOCK FALSE
PROPERTY RowsReachCard
