\* A bare position does not stay bare: a full cycle of entry, stop, exit and renewed stop, with
\* partial fills of each of them that leave less than the minimum.
SPECIFICATION FairSpec
CONSTANTS
  Size = 2
  Minimum = 2
  OperatorActions = {"flatten"}
  MaxOrders = 4
  MaxFailures = 1
  MaxCrashes = 0
INVARIANT TypeOK
PROPERTY HeldEndsSafe
\* A step that needs a journal row beyond the bound keeps the execution lock.
CHECK_DEADLOCK FALSE
