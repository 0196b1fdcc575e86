\* Gaps, repeats, losses, overflows and recoveries, while frames wait and grow old.
SPECIFICATION FairSpec
CONSTANTS
  Prices = {1, 2, 3}
  Openings <- WideBook
  MaxQuantity = 1
  StaleAfter = 0
  Drift = 0
  QueueSize = 1
  MaxNumber = 3
  MaxClock = 1
INVARIANTS TypeOK BooksAreTrue ConsumerNeverRejects
PROPERTIES OrdersUseRecentBooks LossIsLatched
\* A loop that has stopped is not started again.
CHECK_DEADLOCK FALSE
