\* An older queued reset erases a newer risk kill.
SPECIFICATION Spec
CONSTANTS
  OperatorActions <- RecoveryCycle
  MaxCommands = 2
  MaxGeneration = 3
  MaxErrors = 2
  MaxStarts = 1
  MaxCrashes = 0
PROPERTY OlderNeverErasesNewer
\* A runtime that has stopped for the last time within the bound leaves nothing to do.
CHECK_DEADLOCK FALSE
