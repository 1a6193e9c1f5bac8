SPECIFICATION Spec
CONSTANTS
  Sentences <- MCSentences
  MAX_BUFFER_SIZE = 2
  MaxFixes = 2
  MaxSamples = 3
CHECK_DEADLOCK FALSE
INVARIANTS TypeOK OneLocationUnlessPreempted TextNotOlderThanAltitude TimesAccounted
PROPERTY NaNExplained
