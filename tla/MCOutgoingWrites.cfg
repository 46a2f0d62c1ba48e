SPECIFICATION Spec
CONSTANTS
  NoConn = NoConn
  Conn = {c1, c2}
  Sender = {s1, s2}
  IoThreads = 1
  MaxSession = 2
  MaxPush = 2
SYMMETRY ClientsAndSenders
CHECK_DEADLOCK FALSE
INVARIANTS
  TypeOK
  ReachesItsClient
PROPERTIES
  OnlyFailedErased
  ImplementsChannel
