SPECIFICATION FairSpec
CONSTANTS
  MaxItems = 3
CHECK_DEADLOCK FALSE
PROPERTIES
  ImplementsListAnswer
  EveryListEnds
