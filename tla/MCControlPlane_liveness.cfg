\* What must eventually happen under the scheduling of asyncio and the lock.
SPECIFICATION FairSpec
CONSTANTS
  OperatorActions <- RecoveryCycle
  MaxCommands = 2
  MaxGeneration = 2
  MaxErrors = 2
  MaxStarts = 1
  MaxCrashes = 0
PROPERTIES CommandsAnswered KillEndsEntries
\* A runtime that has stopped for the last time within the bound leaves nothing to do.
CHECK_DEADLOCK FALSE
