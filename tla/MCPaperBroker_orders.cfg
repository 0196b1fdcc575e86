\* Every trouble, and a market that can take at least a part of an exit.
SPECIFICATION FairSpec
CONSTANTS
  MaxQuantity = 4
  Minimum = 2
  Increment = 2
  SubmitLatency = 2
  CancelLatency = 2
  ExitRetry = 3
  MaxStep = 2
  MaxLag = 1
  MaxVolume = 2
  WallLead = 1
  Depths = {1, 2}
  Troubles = {"disconnect", "stale", "restart"}
INVARIANTS TypeOK FillsAreEarned OneExposure
PROPERTIES FinalIsFinal CancellationsEnd FlattenSells
