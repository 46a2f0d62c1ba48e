SPECIFICATION FairSpec
CONSTANTS
  NoConn = NoConn
  Conn = {c1, c2}
  Sender = {s1, s2}
  IoThreads = 2
  MaxSession = 2
  MaxPush = 2
CHECK_DEADLOCK FALSE
INVARIANTS
  OneWritePerStream
  PerSenderOrder
PROPERTIES
  LockReleased
  FailedWriteForgotten
