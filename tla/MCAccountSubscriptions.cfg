SPECIFICATION FairSpec
CONSTANTS
  a1 = a1
  a2 = a2
  s1 = s1
  s2 = s2
  Account = {a1, a2}
  Session = {s1, s2}
  MayRead <- MCMayRead
  MaxRequest = 3
CHECK_DEADLOCK FALSE
INVARIANTS
  TypeOK
  CallbackHasSubscriber
  NoHandleLost
PROPERTIES
  NoUpdateAfterCancel
  ThreadsReturn
