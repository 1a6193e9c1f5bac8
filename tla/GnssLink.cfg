SPECIFICATION Spec
CONSTANTS
  GNSS_NMEA_INTERVAL = 6
  Period = 4
  BurstLength = 1
  CharsPerTick = 2
  MinChars = 2
  Word = 20
  MaxDelay = 1
INVARIANTS TypeOK SilenceNoticed TalkNoticed
