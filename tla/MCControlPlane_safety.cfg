\* Every command, kill and failure, over a crash, unclean and clean ends and a second start.
SPECIFICATION Spec
CONSTANTS
  OperatorActions <- AllActions
  MaxCommands = 2
  MaxGeneration = 2
  MaxErrors = 2
  MaxStarts = 2
  MaxCrashes = 1
INVARIANTS TypeOK LatchesPause AtMostOneLateEntry EndsAreRemembered
PROPERTIES ImplementsLatch InheritedNeverRecovers
\* A runtime that has stopped for the last time within the bound leaves nothing to do.
CHECK_DEADLOCK FALSE
