\* cancel-all is answered and leaves an entry at the venue.
SPECIFICATION Spec
CONSTANTS
  Size = 2
  Minimum = 1
  OperatorActions = {"cancel-all", "flatten", "kill", "reset-kill"}
  MaxOrders = 3
  MaxFailures = 1
  MaxCrashes = 0
INVARIANT CancelAllLeavesNoEntry
\* A step that needs a journal row beyond the bound keeps the execution lock.
CHECK_DEADLOCK FALSE
