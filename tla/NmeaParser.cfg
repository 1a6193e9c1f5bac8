SPECIFICATION Spec
CONSTANTS
  Sentences <- MCSentences
  FieldSize = 3
  MaxSentences = 3
  MaxFaults = 2
CHECK_DEADLOCK FALSE
INVARIANT TypeOK
PROPERTIES CommittedAsSent WholeSentenceCommitted
