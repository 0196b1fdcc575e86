\* The components around the trading loop, each by itself.
SPECIFICATION SupportSpec
CONSTANTS
  Clients = {"guard", "guardian"}
  Keys = {"g"}
  KeyOf <- OneKey
  Retries = 1
  MaxMillis = 1
  MaxCalls = 2
  Prices = {1, 2}
  Fees = {0, 1}
  MaxInventory = 2
  MaxExecutions = 4
  Scale = 12
  Equities = {0, 8, 9, 10, 11}
  Days = {1, 2}
  DailyLoss = 10
  SessionLoss = 15
  Drawdown = 20
  MaxMarks = 4
  Hour = 2
  Day = 4
  Spacing = 1
  HourlyLimit = 1
  DailyLimit = 2
  LossLimit = 2
  LossPause = 1
  LossesPause = 2
  MaxTicks = 6
  Bids = {9, 10, 11, 12}
  Stops = {15, 25}
  CostRates = {0, 5}
  Slippage = 5
  TakeProfit = 20
  BreakEven = 10
  Trailing = 15
  MaxEntries = 3
  Horizon = 2
  Slack = 1
  Warmup = 1
  Interval = 1
  TrainEnd = 6
  MaxTime = 7
  MaxEvents = 5
  Codes = {1, 2}
  Configs = {1, 2}
  Models = {1, 2}
  Rates = {1, 2}
  Shipped <- FirstInstallation
  MaxChanges = 2
  Timeout = 1
  MaxErrors = 2
INVARIANTS
  SupportTypeOK
  CreationsAreSafe
  LedgerIsTrue
  LossesStopEntries
  EntriesKeepTheirDistance
  DecidesAtTheHighest
  EvidenceIsTrue
  SamplesAreSound
  RiskHasAWatcher
PROPERTIES
  NoncesIncrease
  LosingStreakIsFinal
  NoUnwatchedEntry EachIsMissed
\* No more calls, executions, marks or changes once a bound is reached.
CHECK_DEADLOCK FALSE
