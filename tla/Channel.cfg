SPECIFICATION FairSpec
CONSTANTS
  PendingLimit = 2
  RelayLimit = 2
  MaxMessages = 4
  MaxHellos = 3
INVARIANTS TypeOK OnlyFlushIsOvertaken NothingLost
PROPERTY HandshakeEnds
CHECK_DEADLOCK FALSE
