\* No trouble: the book stays fresh and can take the exit.
SPECIFICATION FairSpec
CONSTANTS
  MaxQuantity = 2
  Minimum = 2
  Increment = 2
  SubmitLatency = 2
  CancelLatency = 2
  ExitRetry = 3
  MaxStep = 2
  MaxLag = 1
  MaxVolume = 1
  WallLead = 1
  Depths = {2}
  Troubles = {}
PROPERTY KillReduces
