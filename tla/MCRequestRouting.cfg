SPECIFICATION FairSpec
CONSTANTS
  NoKey = NoKey
  s1 = s1
  s2 = s2
  Session = {s1, s2}
  ClientId = {1}
  OtherOrder <- MCOtherOrder
  MaxNumber = 2
CHECK_DEADLOCK FALSE
INVARIANTS
  TypeOK
  RoutedHome
  NothingLost
  OneLate
PROPERTIES
  EndDelivered
