\* Protection, emergency exits and their recovery; a stop may stand beside a working entry, and
\* one filled unit is less than the minimum.
SPECIFICATION Spec
CONSTANTS
  Size = 3
  Minimum = 2
  OperatorActions = {"cancel-all", "flatten", "kill", "reset-kill"}
  MaxOrders = 3
  MaxFailures = 1
  MaxCrashes = 0
INVARIANT NeverOversold
PROPERTIES VerdictIsTrue StopsAreRetained EntryRiskGoesFirst
\* A step that needs a journal row beyond the bound keeps the execution lock.
CHECK_DEADLOCK FALSE
