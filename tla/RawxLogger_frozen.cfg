SPECIFICATION Spec
CONSTANTS
  Messages <- MCMessages
  Noise <- MCNoise
  Base = 4
  SDpacket = 2
  BufferSize = 2
  max_nmea_len = 3
  maxvalfix = 1
  INTERVAL = 1
  Seconds = 2
  Minutes = 2
  MaxLag = 1
  MaxLow = 0
  MaxTime = 3
  MaxFaults = 0
CHECK_DEADLOCK FALSE
INVARIANT KeepsLogging
