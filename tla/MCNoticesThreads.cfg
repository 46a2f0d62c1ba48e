SPECIFICATION FairSpec
CONSTANTS
  own = own
  elsewhere = elsewhere
  MaxSession = 2
  Order = {own, elsewhere}
  Foreign = {elsewhere}
  CanRead <- MCCanRead
  PoolThreads = 2
  MaxChange = 2
CHECK_DEADLOCK FALSE
INVARIANTS
  TypeOK
  OneIsWithheldFirst
  WithheldOnce
PROPERTIES
  EveryReaderTold
  FirstIsWithheld
  NoticesInOrder
