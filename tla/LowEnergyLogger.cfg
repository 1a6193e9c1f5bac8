SPECIFICATION FairSpec
CONSTANTS
  ByteSize = 2
  WATCHDOG = 3
  Patience = 5
  LOG_SEG_INTERVAL = 2
  DayLength = 2
  NoFile = NoFile
  NoSentence = NoSentence
  Cut = Cut
  MaxUptime = 6
  MaxSent = 3
  MaxSamples = 2
CHECK_DEADLOCK FALSE
INVARIANTS TypeOK NamedAsSent EachRowRead
PROPERTIES DeafAfterASecond RefreshReturns
