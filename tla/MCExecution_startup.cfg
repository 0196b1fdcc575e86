\* The startup reconciliation of one process races the recovery of the other.
SPECIFICATION Spec
CONSTANTS
  Size = 2
  Minimum = 1
  OperatorActions = {"cancel-all", "flatten", "kill", "reset-kill"}
  MaxOrders = 3
  MaxFailures = 1
  MaxCrashes = 1
PROPERTY VerdictIsTrue
\* A step that needs a journal row beyond the bound keeps the execution lock.
CHECK_DEADLOCK FALSE
