SPECIFICATION FairSpec
CONSTANTS
  c1 = c1
  c2 = c2
  c3 = c3
  Row = {1, 3, 4}
  Contract = {c1, c2, c3}
  contractId <- MCContractId
  MaxDays = 1
CHECK_DEADLOCK FALSE
INVARIANTS
  TypeOK
  NoSummaryAfterEnd
  EndIfNoneFails
PROPERTIES
  EveryRowEnds
