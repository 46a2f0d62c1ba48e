SPECIFICATION ServerSpec
CONSTANTS
  s1 = s1
  s2 = s2
  Session = {s1}
  Content <- MCContent
  MaxSent = 2
  MaxContract = 2
CHECK_DEADLOCK FALSE
INVARIANTS
  TypeOK
  HandledInOrder
  OnePlace
PROPERTIES
  
  IndependentOfTws
