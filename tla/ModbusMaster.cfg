SPECIFICATION FairSpec
CONSTANTS
  ByteSize = 256
  SlaveID = 17
  ReadQty = 2
  Altered <- MCAltered
  MaxRequests = 3
  MaxFaults = 2
CHECK_DEADLOCK FALSE
INVARIANTS TypeOK OwnAnswerUnlessOwed NoDistanceAgain
PROPERTIES TransactionEnds
