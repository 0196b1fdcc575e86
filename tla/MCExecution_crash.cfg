\* A process dies between two network calls; the other one or a restart goes on.
SPECIFICATION Spec
CONSTANTS
  Size = 1
  Minimum = 1
  OperatorActions = {"cancel-all", "flatten", "kill", "reset-kill"}
  MaxOrders = 3
  MaxFailures = 2
  MaxCrashes = 1
INVARIANT DeathLosesNothing
PROPERTY EntersFlat
\* A step that needs a journal row beyond the bound keeps the execution lock.
CHECK_DEADLOCK FALSE
